---- MODULE Spec2Model ----
(***************************************************************************)
(* Curve mathematics of the curve visualizer: Hermite, Bezier and B-spline *)
(* evaluation, conversion, trimming and knot vectors.                      *)
(*                                                                         *)
(* Numbers are exact rationals <<num, den>> in lowest terms with den > 0;  *)
(* the three non-finite values of the source's number type are <<1,0>>     *)
(* (+Infinity), <<-1,0>> (-Infinity) and <<0,0>> (NaN).  Arrays of the     *)
(* source are 0-based; sequences here are 1-based, so a[i] of the source   *)
(* is a[i+1] here.                                                         *)
(***************************************************************************)
EXTENDS Integers, Sequences, FiniteSets, TLC

VARIABLES
    op,       \* the operation that produced out ("init" before any call)
    out,      \* the value returned by that operation
    points,   \* Bezier control polygon passed by the caller
    u,        \* curve parameter passed by the caller
    range,    \* TrimRange passed by the caller
    form,     \* HermiteForm passed by the caller
    bn, bk,   \* integer arguments of binomial / bernstein
    nCtrl,    \* number of B-spline control points
    degree,   \* B-spline degree
    ctrl,     \* B-spline control points
    knots,    \* B-spline knot vector
    samples,    \* sample count passed to the latest sampler call
    matA, matB, \* matrices passed by the caller
    vec,      \* vector passed by the caller
    editorCurve,  \* BSplineEditor: the curvePoints state on display
    dirtyKnots,   \* BSplineEditor: the knot effect is due at the next commit
    dirtyCurve,   \* BSplineEditor, BezierEditor: the curve effect is due at the next commit
    knotInput,    \* BSplineEditor: the tokens of the knot text field
    useIntersection,  \* BezierEditor: the Intersection Recovery switch
    dirtyDegree,  \* BezierEditor: the degree effect is due at the next commit
    switches,     \* BezierEditor: how many times the degree switch was flipped
    stack         \* the arguments of the deCasteljau calls that have not returned

vars == <<op, out, points, u, range, form, bn, bk, nCtrl, degree, ctrl, knots,
          samples, matA, matB, vec, editorCurve, dirtyKnots, dirtyCurve,
          knotInput, useIntersection, dirtyDegree, switches, stack>>

editor == <<editorCurve, dirtyKnots, dirtyCurve, knotInput, useIntersection, dirtyDegree, switches>>

inputs == <<points, u, range, form, bn, bk, nCtrl, degree, ctrl, matA, matB, vec>>

----------------------------------------------------------------------------
(* Bounds of the model *)

\* largest number of points of a Bezier control polygon
MaxLen == 4
\* parameters are the multiples of 1/UDen in [0,1]
UDen == 4
\* largest first argument of binomial / degree of bernstein
MaxBinN == 5
\* largest number of B-spline control points
MaxCtrl == 4
\* largest B-spline degree
MaxDeg == 3
\* largest sample count passed to a curve sampler
MaxSamples == 2
\* largest length of a knot vector supplied by the caller
MaxKnots == 4
\* largest number of rows or columns of a matrix, and length of a vector
MaxDim == 3
\* largest number of control points Add Point is followed up to
MaxEditorPoints == 5

MaxSwitches == 3

\* the depth at which the engine ends a recursion with a RangeError
MaxStack == 6

----------------------------------------------------------------------------
(* Number arithmetic *)

Abs(x) == IF x < 0 THEN -x ELSE x

Sgn(x) == IF x < 0 THEN -1 ELSE IF x > 0 THEN 1 ELSE 0

RECURSIVE GCD(_, _)
GCD(a, b) == IF b = 0 THEN a ELSE GCD(b, a % b)

\* the rational n/d (d # 0) in lowest terms
Rat(n, d) ==
    LET s == IF d < 0 THEN -1 ELSE 1
        g == GCD(Abs(n), Abs(d))
    IN  <<(s * n) \div g, (s * d) \div g>>

Num(n) == <<n, 1>>

Zero == <<0, 1>>
One == <<1, 1>>
NaN == <<0, 0>>

IsFinite(a) == a[2] # 0

RNeg(a) == <<-a[1], a[2]>>

RAdd(a, b) ==
    IF IsFinite(a) /\ IsFinite(b) THEN Rat(a[1] * b[2] + b[1] * a[2], a[2] * b[2])
    ELSE IF a = NaN \/ b = NaN THEN NaN
    ELSE IF ~IsFinite(a) /\ ~IsFinite(b) THEN (IF a = b THEN a ELSE NaN)
    ELSE IF ~IsFinite(a) THEN a ELSE b

RSub(a, b) == RAdd(a, RNeg(b))

RMul(a, b) ==
    IF IsFinite(a) /\ IsFinite(b) THEN Rat(a[1] * b[1], a[2] * b[2])
    ELSE IF a = NaN \/ b = NaN \/ a[1] = 0 \/ b[1] = 0 THEN NaN
    ELSE <<Sgn(a[1]) * Sgn(b[1]), 0>>

RDiv(a, b) ==
    IF IsFinite(a) /\ IsFinite(b)
    THEN IF b[1] # 0 THEN Rat(a[1] * b[2], a[2] * b[1])
         ELSE IF a[1] = 0 THEN NaN ELSE <<Sgn(a[1]), 0>>
    ELSE IF a = NaN \/ b = NaN \/ (~IsFinite(a) /\ ~IsFinite(b)) THEN NaN
    ELSE IF IsFinite(a) THEN Zero
    ELSE <<Sgn(a[1]) * (IF b[1] < 0 THEN -1 ELSE 1), 0>>

\* a < b and a <= b of the source: false as soon as one side is NaN
RLt(a, b) ==
    /\ a # NaN
    /\ b # NaN
    /\ IF IsFinite(a) /\ IsFinite(b) THEN a[1] * b[2] < b[1] * a[2]
       ELSE (IF IsFinite(a) THEN 0 ELSE a[1]) < (IF IsFinite(b) THEN 0 ELSE b[1])

\* a === b of the source
REq(a, b) == a # NaN /\ b # NaN /\ a = b

RLe(a, b) == RLt(a, b) \/ REq(a, b)

\* pow with 0^0 taken as 0
RECURSIVE powZeroBase(_, _)
powZeroBase(b, e) ==
    IF b = Zero THEN Zero ELSE IF e = 0 THEN One ELSE RMul(b, powZeroBase(b, e - 1))

\* Math.pow(b, e) for an integer exponent e >= 0; Math.pow(x, 0) is 1
RECURSIVE pow(_, _)
pow(b, e) == IF e = 0 THEN One ELSE RMul(b, pow(b, e - 1))

Pt(x, y) == [x |-> x, y |-> y]

\* a[i] of a 0-based source array: undefined (NaN in arithmetic) out of range
At(a, i) == IF i >= 0 /\ i < Len(a) THEN a[i + 1] ELSE NaN

----------------------------------------------------------------------------
(* Bezier module *)

\* binomial's loop with the factor (n - i) / i
RECURSIVE binomialLoopShifted(_, _, _, _)
binomialLoopShifted(n, k, i, result) ==
    IF i <= k
    THEN binomialLoopShifted(n, k, i + 1, RMul(result, RDiv(Num(n - i), Num(i))))
    ELSE result

RECURSIVE binomialLoop(_, _, _, _)
binomialLoop(n, k, i, result) ==
    IF i <= k
    THEN binomialLoop(n, k, i + 1, RMul(result, RDiv(Num(n + 1 - i), Num(i))))
    ELSE result

binomial(n, k) ==
    IF k < 0 \/ k > n THEN Zero
    ELSE IF k = 0 \/ k = n THEN One
    ELSE binomialLoop(n, k, 1, One)

\* bernstein with the two exponents exchanged
bernsteinSwapped(i, n, uu) ==
    IF i < 0 \/ i > n THEN Zero
    ELSE RMul(RMul(binomial(n, i), pow(RSub(One, uu), i)), pow(uu, n - i))

bernstein(i, n, uu) ==
    IF i < 0 \/ i > n THEN Zero
    ELSE RMul(RMul(binomial(n, i), pow(RSub(One, uu), n - i)), pow(uu, i))

\* the interpolation loop shared by deCasteljau and getTrimmedControlPoints:
\* pushes (1-t)*p[j] + t*p[j+1] for j = 0 .. p.length-2
RECURSIVE lerpLoop(_, _, _, _)
lerpLoop(p, t, j, newPoints) ==
    IF j < Len(p) - 1
    THEN lerpLoop(p, t, j + 1,
             Append(newPoints,
                 Pt(RAdd(RMul(RSub(One, t), p[j + 1].x), RMul(t, p[j + 2].x)),
                    RAdd(RMul(RSub(One, t), p[j + 1].y), RMul(t, p[j + 2].y)))))
    ELSE newPoints

lerpLevel(p, t) == lerpLoop(p, t, 0, <<>>)

RECURSIVE deCasteljau(_, _)
deCasteljau(p, uu) ==
    IF Len(p) = 1 THEN p[1] ELSE deCasteljau(lerpLevel(p, uu), uu)

\* x += points[i].x * basis; y += points[i].y * basis
weighted(acc, pt, basis) ==
    Pt(RAdd(acc.x, RMul(pt.x, basis)), RAdd(acc.y, RMul(pt.y, basis)))

RECURSIVE evaluateBezierLoop(_, _, _, _)
evaluateBezierLoop(p, uu, i, acc) ==
    IF i <= Len(p) - 1
    THEN evaluateBezierLoop(p, uu, i + 1,
             weighted(acc, p[i + 1], bernstein(i, Len(p) - 1, uu)))
    ELSE acc

evaluateBezier(p, uu) == evaluateBezierLoop(p, uu, 0, Pt(Zero, Zero))

RECURSIVE bezierSampleLoop(_, _, _, _)
bezierSampleLoop(p, numPoints, i, curvePoints) ==
    IF i <= numPoints
    THEN bezierSampleLoop(p, numPoints, i + 1,
             Append(curvePoints, evaluateBezier(p, RDiv(Num(i), Num(numPoints)))))
    ELSE curvePoints

generateBezierCurvePoints(p, numPoints) == bezierSampleLoop(p, numPoints, 0, <<>>)

\* first loop of getTrimmedControlPoints: leftPoints, from tempPoints at level i
RECURSIVE trimLeft(_, _, _, _, _)
trimLeft(temp, u1, i, n, leftPoints) ==
    IF i <= n
    THEN trimLeft(lerpLevel(temp, u1), u1, i + 1, n, Append(leftPoints, temp[1]))
    ELSE leftPoints

\* second loop: rightPoints, each level's last point put in front
RECURSIVE trimRight(_, _, _, _, _)
trimRight(temp, u2, i, n, rightPoints) ==
    IF i <= n
    THEN trimRight(lerpLevel(temp, u2), u2, i + 1, n, <<temp[Len(temp)]>> \o rightPoints)
    ELSE rightPoints

\* third loop: trimmedPoints, the blend of leftPoints and rightPoints
RECURSIVE trimBlend(_, _, _, _, _, _)
trimBlend(leftPoints, rightPoints, alpha, i, n, trimmedPoints) ==
    IF i <= n
    THEN trimBlend(leftPoints, rightPoints, alpha, i + 1, n,
             Append(trimmedPoints,
                 Pt(RAdd(RMul(RSub(One, alpha), leftPoints[i + 1].x),
                         RMul(alpha, rightPoints[i + 1].x)),
                    RAdd(RMul(RSub(One, alpha), leftPoints[i + 1].y),
                         RMul(alpha, rightPoints[i + 1].y)))))
    ELSE trimmedPoints

getTrimmedControlPoints(p, r) ==
    trimBlend(trimLeft(p, r.u1, 0, Len(p) - 1, <<>>),
              trimRight(p, r.u2, 0, Len(p) - 1, <<>>),
              RDiv(RSub(r.u2, r.u1), RSub(One, r.u1)),
              0, Len(p) - 1, <<>>)

----------------------------------------------------------------------------
(* Linear-algebra utility *)

\* the outcome "the call threw an Error": no value is returned
Thrown == <<>>

\* for (k = 0; k < colsA; k++) C[i][j] += A[i][k] * B[k][j]
RECURSIVE multiplyCell(_, _, _, _, _, _)
multiplyCell(A, B, i, j, k, acc) ==
    IF k < Len(A[1])
    THEN multiplyCell(A, B, i, j, k + 1, RAdd(acc, RMul(A[i + 1][k + 1], B[k + 1][j + 1])))
    ELSE acc

RECURSIVE multiplyRow(_, _, _, _, _)
multiplyRow(A, B, i, j, row) ==
    IF j < Len(B[1])
    THEN multiplyRow(A, B, i, j + 1, Append(row, multiplyCell(A, B, i, j, 0, Zero)))
    ELSE row

RECURSIVE multiplyRows(_, _, _, _)
multiplyRows(A, B, i, C) ==
    IF i < Len(A) THEN multiplyRows(A, B, i + 1, Append(C, multiplyRow(A, B, i, 0, <<>>)))
    ELSE C

\* multiply returning a matrix of zeros where the shapes disagree
multiplySilent(A, B) ==
    IF Len(A[1]) # Len(B) THEN [i \in 1..Len(A) |-> [j \in 1..Len(B[1]) |-> Zero]]
    ELSE multiplyRows(A, B, 0, <<>>)

multiply(A, B) ==
    IF Len(A[1]) # Len(B) THEN Thrown ELSE multiplyRows(A, B, 0, <<>>)

RECURSIVE dotLoop(_, _, _, _)
dotLoop(row, v, j, acc) ==
    IF j < Len(row) THEN dotLoop(row, v, j + 1, RAdd(acc, RMul(row[j + 1], v[j + 1])))
    ELSE acc

RECURSIVE multiplyVectorLoop(_, _, _, _)
multiplyVectorLoop(A, v, i, result) ==
    IF i < Len(A)
    THEN multiplyVectorLoop(A, v, i + 1, Append(result, dotLoop(A[i + 1], v, 0, Zero)))
    ELSE result

multiplyVector(A, v) ==
    IF Len(A[1]) # Len(v) THEN Thrown ELSE multiplyVectorLoop(A, v, 0, <<>>)

\* the Hermite matrix with the sign of one tangent entry lost
hermiteMatrixSlip ==
    << <<Num(2), Num(-2), Num(1), Num(1)>>,
       <<Num(-3), Num(3), Num(2), Num(-1)>>,
       <<Num(0), Num(0), Num(1), Num(0)>>,
       <<Num(1), Num(0), Num(0), Num(0)>> >>

hermiteMatrix ==
    << <<Num(2), Num(-2), Num(1), Num(1)>>,
       <<Num(-3), Num(3), Num(-2), Num(-1)>>,
       <<Num(0), Num(0), Num(1), Num(0)>>,
       <<Num(1), Num(0), Num(0), Num(0)>> >>

\* bezierToPowerMatrix with a matrix for degree 1 as well
bezierToPowerMatrixLinear(n) ==
    IF n = 1 THEN << <<Num(-1), Num(1)>>, <<Num(1), Num(0)>> >>
    ELSE IF n = 2
    THEN << <<Num(1), Num(-2), Num(1)>>,
            <<Num(-2), Num(2), Num(0)>>,
            <<Num(1), Num(0), Num(0)>> >>
    ELSE IF n = 3
    THEN << <<Num(-1), Num(3), Num(-3), Num(1)>>,
            <<Num(3), Num(-6), Num(3), Num(0)>>,
            <<Num(-3), Num(3), Num(0), Num(0)>>,
            <<Num(1), Num(0), Num(0), Num(0)>> >>
    ELSE Thrown

bezierToPowerMatrix(n) ==
    IF n = 2
    THEN << <<Num(1), Num(-2), Num(1)>>,
            <<Num(-2), Num(2), Num(0)>>,
            <<Num(1), Num(0), Num(0)>> >>
    ELSE IF n = 3
    THEN << <<Num(-1), Num(3), Num(-3), Num(1)>>,
            <<Num(3), Num(-6), Num(3), Num(0)>>,
            <<Num(-3), Num(3), Num(0), Num(0)>>,
            <<Num(1), Num(0), Num(0), Num(0)>> >>
    ELSE Thrown

\* subdivisionMatrix: the matrix the source returns for n = 3; it throws for
\* every other n
subdivisionMatrix(n, uu) ==
    IF n # 3 THEN Thrown
    ELSE << <<One, Zero, Zero, Zero>>,
            <<RSub(One, uu), uu, Zero, Zero>>,
            <<RMul(RSub(One, uu), RSub(One, uu)), RMul(RSub(One, uu), uu), RMul(uu, uu), Zero>>,
            <<RMul(RMul(RSub(One, uu), RSub(One, uu)), RSub(One, uu)),
              RMul(RMul(RSub(One, uu), RSub(One, uu)), uu),
              RMul(RSub(One, uu), RMul(uu, uu)),
              RMul(RMul(uu, uu), uu)>> >>

----------------------------------------------------------------------------
(* Bezier module: conversion, reconstruction and derivative *)

\* points.map(p => p.x), points.map(p => p.y)
xCoords(p) == [i \in 1..Len(p) |-> p[i].x]
yCoords(p) == [i \in 1..Len(p) |-> p[i].y]

\* the throw of bezierToPowerMatrix leaves bezierToPolynomial before any product
\* bezierToPolynomial with each coefficient vector in ascending powers
bezierToPolynomialAscending(p) ==
    IF bezierToPowerMatrix(Len(p) - 1) = Thrown THEN Thrown
    ELSE [x |-> [j \in 1..Len(p) |->
                    multiplyVector(bezierToPowerMatrix(Len(p) - 1), xCoords(p))[Len(p) + 1 - j]],
          y |-> [j \in 1..Len(p) |->
                    multiplyVector(bezierToPowerMatrix(Len(p) - 1), yCoords(p))[Len(p) + 1 - j]]]

bezierToPolynomial(p) ==
    IF bezierToPowerMatrix(Len(p) - 1) = Thrown THEN Thrown
    ELSE [x |-> multiplyVector(bezierToPowerMatrix(Len(p) - 1), xCoords(p)),
          y |-> multiplyVector(bezierToPowerMatrix(Len(p) - 1), yCoords(p))]

\* calculateIntersectionControlPoints with P2 = (PStar + 2*P3)/3
calculateIntersectionSwapped(P0, PStar, P3) ==
    << Pt(RDiv(RAdd(P0.x, RMul(Num(2), PStar.x)), Num(3)),
          RDiv(RAdd(P0.y, RMul(Num(2), PStar.y)), Num(3))),
       Pt(RDiv(RAdd(PStar.x, RMul(Num(2), P3.x)), Num(3)),
          RDiv(RAdd(PStar.y, RMul(Num(2), P3.y)), Num(3))) >>

calculateIntersectionControlPoints(P0, PStar, P3) ==
    << Pt(RDiv(RAdd(P0.x, RMul(Num(2), PStar.x)), Num(3)),
          RDiv(RAdd(P0.y, RMul(Num(2), PStar.y)), Num(3))),
       Pt(RDiv(RAdd(RMul(Num(2), PStar.x), P3.x), Num(3)),
          RDiv(RAdd(RMul(Num(2), PStar.y), P3.y), Num(3))) >>

\* bezierDerivative's loop without the factor n
RECURSIVE derivPointsUnscaled(_, _, _, _)
derivPointsUnscaled(p, n, i, derivPoints) ==
    IF i < n
    THEN derivPointsUnscaled(p, n, i + 1,
             Append(derivPoints,
                 Pt(RSub(p[i + 2].x, p[i + 1].x), RSub(p[i + 2].y, p[i + 1].y))))
    ELSE derivPoints

\* for (i = 0; i < n; i++) derivPoints.push(n * (points[i+1] - points[i]))
RECURSIVE derivPoints(_, _, _, _)
derivPoints(p, n, i, acc) ==
    IF i < n
    THEN derivPoints(p, n, i + 1,
             Append(acc,
                 Pt(RMul(Num(n), RSub(p[i + 2].x, p[i + 1].x)),
                    RMul(Num(n), RSub(p[i + 2].y, p[i + 1].y)))))
    ELSE acc

bezierDerivative(p, uu) == evaluateBezier(derivPoints(p, Len(p) - 1, 0, <<>>), uu)

----------------------------------------------------------------------------
(* Hermite module *)

\* h0 with the constant term dropped
h0NoConstant(uu) == RSub(RMul(Num(2), pow(uu, 3)), RMul(Num(3), pow(uu, 2)))

h0(uu) == RAdd(RSub(RMul(Num(2), pow(uu, 3)), RMul(Num(3), pow(uu, 2))), One)

h1(uu) == RAdd(RMul(Num(-2), pow(uu, 3)), RMul(Num(3), pow(uu, 2)))

h2(uu) == RAdd(RSub(pow(uu, 3), RMul(Num(2), pow(uu, 2))), uu)

h3(uu) == RSub(pow(uu, 3), pow(uu, 2))

\* h0u*P0 + h1u*P1 + h2u*T0 + h3u*T1 on one axis
hermiteBlend(h0u, h1u, h2u, h3u, p0, p1, t0, t1) ==
    RAdd(RAdd(RAdd(RMul(h0u, p0), RMul(h1u, p1)), RMul(h2u, t0)), RMul(h3u, t1))

evaluateHermite(f, uu) ==
    Pt(hermiteBlend(h0(uu), h1(uu), h2(uu), h3(uu), f.P0.x, f.P1.x, f.T0.x, f.T1.x),
       hermiteBlend(h0(uu), h1(uu), h2(uu), h3(uu), f.P0.y, f.P1.y, f.T0.y, f.T1.y))

RECURSIVE hermiteSampleLoop(_, _, _, _)
hermiteSampleLoop(f, numPoints, i, pts) ==
    IF i <= numPoints
    THEN hermiteSampleLoop(f, numPoints, i + 1,
             Append(pts, evaluateHermite(f, RDiv(Num(i), Num(numPoints)))))
    ELSE pts

generateHermiteCurvePoints(f, numPoints) == hermiteSampleLoop(f, numPoints, 0, <<>>)

CubicPolynomial(c) == [a |-> c[1], b |-> c[2], c |-> c[3], d |-> c[4]]

hermiteToPolynomial(f) ==
    [x |-> CubicPolynomial(multiplyVector(hermiteMatrix, <<f.P0.x, f.P1.x, f.T0.x, f.T1.x>>)),
     y |-> CubicPolynomial(multiplyVector(hermiteMatrix, <<f.P0.y, f.P1.y, f.T0.y, f.T1.y>>))]

\* polynomialToHermite with T1 = 3a + 2b
polynomialToHermiteNoC(polyX, polyY) ==
    [P0 |-> Pt(polyX.d, polyY.d),
     P1 |-> Pt(RAdd(RAdd(RAdd(polyX.a, polyX.b), polyX.c), polyX.d),
               RAdd(RAdd(RAdd(polyY.a, polyY.b), polyY.c), polyY.d)),
     T0 |-> Pt(polyX.c, polyY.c),
     T1 |-> Pt(RAdd(RMul(Num(3), polyX.a), RMul(Num(2), polyX.b)),
               RAdd(RMul(Num(3), polyY.a), RMul(Num(2), polyY.b)))]

polynomialToHermite(polyX, polyY) ==
    [P0 |-> Pt(polyX.d, polyY.d),
     P1 |-> Pt(RAdd(RAdd(RAdd(polyX.a, polyX.b), polyX.c), polyX.d),
               RAdd(RAdd(RAdd(polyY.a, polyY.b), polyY.c), polyY.d)),
     T0 |-> Pt(polyX.c, polyY.c),
     T1 |-> Pt(RAdd(RAdd(RMul(Num(3), polyX.a), RMul(Num(2), polyX.b)), polyX.c),
               RAdd(RAdd(RMul(Num(3), polyY.a), RMul(Num(2), polyY.b)), polyY.c))]

----------------------------------------------------------------------------
(* B-spline module *)

RECURSIVE coxDeBoor(_, _, _, _)

\* either term of the recursion without the test of the denominator
coxTermUnguarded(numer, denom, i, k, uu, kn) ==
    RMul(RDiv(numer, denom), coxDeBoor(i, k, uu, kn))

\* ((u - lo)/denom) * N when denom !== 0, else 0: either term of the recursion
coxTerm(numer, denom, i, k, uu, kn) ==
    IF ~REq(denom, Zero) THEN RMul(RDiv(numer, denom), coxDeBoor(i, k, uu, kn)) ELSE Zero

coxDeBoor(i, k, uu, kn) ==
    IF k = 0
    THEN IF \/ RLe(At(kn, i), uu) /\ RLt(uu, At(kn, i + 1))
            \/ REq(uu, At(kn, Len(kn) - 1)) /\ i = Len(kn) - k - 2
         THEN One ELSE Zero
    ELSE RAdd(coxTerm(RSub(uu, At(kn, i)), RSub(At(kn, i + k), At(kn, i)),
                      i, k - 1, uu, kn),
              coxTerm(RSub(At(kn, i + k + 1), uu), RSub(At(kn, i + k + 1), At(kn, i + 1)),
                      i + 1, k - 1, uu, kn))

RECURSIVE evaluateBSplineLoop(_, _, _, _, _, _)
evaluateBSplineLoop(cp, deg, uu, kn, i, acc) ==
    IF i < Len(cp)
    THEN evaluateBSplineLoop(cp, deg, uu, kn, i + 1,
             weighted(acc, cp[i + 1], coxDeBoor(i, deg, uu, kn)))
    ELSE acc

evaluateBSpline(cp, deg, uu, kn) == evaluateBSplineLoop(cp, deg, uu, kn, 0, Pt(Zero, Zero))

\* the sampling loop with u = i / numPoints, whatever the domain
RECURSIVE bsplineSampleLoopUnit(_, _, _, _, _, _, _, _)
bsplineSampleLoopUnit(cp, deg, kn, numPoints, startParam, endParam, i, curvePoints) ==
    IF i <= numPoints
    THEN bsplineSampleLoopUnit(cp, deg, kn, numPoints, startParam, endParam, i + 1,
             Append(curvePoints,
                 evaluateBSpline(cp, deg, RDiv(Num(i), Num(numPoints)), kn)))
    ELSE curvePoints

RECURSIVE bsplineSampleLoop(_, _, _, _, _, _, _, _)
bsplineSampleLoop(cp, deg, kn, numPoints, startParam, endParam, i, curvePoints) ==
    IF i <= numPoints
    THEN bsplineSampleLoop(cp, deg, kn, numPoints, startParam, endParam, i + 1,
             Append(curvePoints,
                 evaluateBSpline(cp, deg,
                     RAdd(startParam,
                          RMul(RDiv(Num(i), Num(numPoints)), RSub(endParam, startParam))),
                     kn)))
    ELSE curvePoints

generateBSplineCurvePoints(cp, deg, kn, numPoints) ==
    bsplineSampleLoop(cp, deg, kn, numPoints,
                      At(kn, deg), At(kn, Len(kn) - deg - 1), 0, <<>>)

\* factor * (controlPoints[i+1] - controlPoints[i])
scaledDifference(factor, a, b) ==
    Pt(RMul(factor, RSub(b.x, a.x)), RMul(factor, RSub(b.y, a.y)))

\* bsplineDerivative's loop with the factor degree / (knots[i+degree] - knots[i])
RECURSIVE derivCtrlPtsShifted(_, _, _, _, _, _)
derivCtrlPtsShifted(cp, deg, kn, n, i, acc) ==
    IF i < n
    THEN derivCtrlPtsShifted(cp, deg, kn, n, i + 1,
             Append(acc,
                 scaledDifference(RDiv(Num(deg), RSub(At(kn, i + deg), At(kn, i))),
                                  cp[i + 1], cp[i + 2])))
    ELSE acc

RECURSIVE derivCtrlPts(_, _, _, _, _, _)
derivCtrlPts(cp, deg, kn, n, i, acc) ==
    IF i < n
    THEN derivCtrlPts(cp, deg, kn, n, i + 1,
             Append(acc,
                 scaledDifference(RDiv(Num(deg), RSub(At(kn, i + deg + 1), At(kn, i + 1))),
                                  cp[i + 1], cp[i + 2])))
    ELSE acc

\* knots.slice(1, -1)
\* knots.slice(0, -2): the last two entries dropped instead of one at each end
sliceFront(kn) == SubSeq(kn, 1, Len(kn) - 2)

sliceInner(kn) == SubSeq(kn, 2, Len(kn) - 1)

bsplineDerivative(cp, deg, uu, kn) ==
    IF deg >= 1
    THEN evaluateBSpline(derivCtrlPts(cp, deg, kn, Len(cp) - 1, 0, <<>>),
                         deg - 1, uu, sliceInner(kn))
    ELSE Pt(Zero, Zero)

\* for (i = 0; i <= k; i++) knots.push(value)
RECURSIVE pushRepeated(_, _, _, _)
pushRepeated(kn, value, i, k) ==
    IF i <= k THEN pushRepeated(Append(kn, value), value, i + 1, k) ELSE kn

\* for (i = 1; i < n - k; i++) knots.push(i / (n - k))
RECURSIVE pushInternal(_, _, _, _)
pushInternal(kn, i, n, k) ==
    IF i < n - k THEN pushInternal(Append(kn, RDiv(Num(i), Num(n - k))), i + 1, n, k)
    ELSE kn

\* generateUniformKnots with k zeros in front instead of k + 1
generateUniformKnotsShort(n, k) ==
    pushRepeated(pushInternal(pushRepeated(<<>>, Zero, 1, k), 1, n, k), One, 0, k)

generateUniformKnots(n, k) ==
    pushRepeated(pushInternal(pushRepeated(<<>>, Zero, 0, k), 1, n, k), One, 0, k)

RECURSIVE validateKnotsLoop(_, _)
validateKnotsLoop(kn, i) ==
    IF i < Len(kn) - 1
    THEN IF RLt(At(kn, i + 1), At(kn, i)) THEN FALSE ELSE validateKnotsLoop(kn, i + 1)
    ELSE TRUE

validateKnots(kn, n, k) ==
    IF Len(kn) # n + k + 1 THEN FALSE ELSE validateKnotsLoop(kn, 0)

----------------------------------------------------------------------------
(* The same operations on a heap of objects.  A heap is a sequence of        *)
(* objects, the address of an object is its index; a Point[] holds the       *)
(* addresses of its Points, a KnotVector holds numbers.  Each operation      *)
(* takes the heap and the addresses passed by the caller and returns the     *)
(* heap it leaves and the address it returns.                                *)

\* the caller's objects: its Points, the array of them, the TrimRange, the
\* knot vector and the HermiteForm
CallerHeap(cp, r, kn, f) == cp \o << [i \in 1..Len(cp) |-> i], r, kn, f >>

arrayRef(cp) == Len(cp) + 1
rangeRef(cp) == Len(cp) + 2
knotsRef(cp) == Len(cp) + 3
formRef(cp) == Len(cp) + 4

\* the Points of the array at address arr
Deref(h, arr) == [i \in 1..Len(h[arr]) |-> h[h[arr][i]]]

\* arr[i] of the source
elem(h, arr, i) == h[h[arr][i + 1]]

\* arr.push({x: ..., y: ...}): a new object, and its address appended to arr
pushNew(h, arr, obj) == [Append(h, obj) EXCEPT ![arr] = Append(@, Len(h) + 1)]

\* arr.push(p) and arr.unshift(p) for an existing object p
pushRef(h, arr, ref) == [h EXCEPT ![arr] = Append(@, ref)]
unshiftRef(h, arr, ref) == [h EXCEPT ![arr] = <<ref>> \o @]

\* {x: (1-t)*a.x + t*b.x, y: (1-t)*a.y + t*b.y}
interpolate(a, b, t) ==
    Pt(RAdd(RMul(RSub(One, t), a.x), RMul(t, b.x)),
       RAdd(RMul(RSub(One, t), a.y), RMul(t, b.y)))

\* the interpolation loop writing each new point over the Point it started from
RECURSIVE lerpLoopInPlace(_, _, _, _, _)
lerpLoopInPlace(h, src, t, j, dst) ==
    IF j < Len(h[src]) - 1
    THEN lerpLoopInPlace(
             pushRef([h EXCEPT ![h[src][j + 1]] =
                          interpolate(elem(h, src, j), elem(h, src, j + 1), t)],
                     dst, h[src][j + 1]),
             src, t, j + 1, dst)
    ELSE h

\* for (j = 0; j < src.length - 1; j++) dst.push({...})
RECURSIVE lerpLoopOnHeap(_, _, _, _, _)
lerpLoopOnHeap(h, src, t, j, dst) ==
    IF j < Len(h[src]) - 1
    THEN lerpLoopOnHeap(
             pushNew(h, dst, interpolate(elem(h, src, j), elem(h, src, j + 1), t)),
             src, t, j + 1, dst)
    ELSE h

\* deCasteljau: newPoints is a new array at Len(h) + 1; a one-point polygon
\* returns the Point it holds, not a copy
RECURSIVE deCasteljauOnHeap(_, _, _)
deCasteljauOnHeap(h, pts, uu) ==
    IF Len(h[pts]) = 1 THEN [heap |-> h, ret |-> h[pts][1]]
    ELSE deCasteljauOnHeap(lerpLoopOnHeap(Append(h, <<>>), pts, uu, 0, Len(h) + 1),
                           Len(h) + 1, uu)

\* evaluateBezier reads points[i].x and points[i].y and returns a new {x, y}
evaluateBezierOnHeap(h, pts, uu) ==
    [heap |-> Append(h, evaluateBezier(Deref(h, pts), uu)), ret |-> Len(h) + 1]

\* first loop of getTrimmedControlPoints: leftPoints.push(tempPoints[0]), then
\* tempPoints = newTempPoints, a new array at Len(h) + 1
RECURSIVE trimLeftOnHeap(_, _, _, _, _, _)
trimLeftOnHeap(h, temp, u1, i, n, left) ==
    IF i <= n
    THEN trimLeftOnHeap(
             lerpLoopOnHeap(Append(pushRef(h, left, h[temp][1]), <<>>),
                            temp, u1, 0, Len(h) + 1),
             Len(h) + 1, u1, i + 1, n, left)
    ELSE h

\* second loop: rightPoints.unshift(tempPoints[tempPoints.length - 1])
RECURSIVE trimRightOnHeap(_, _, _, _, _, _)
trimRightOnHeap(h, temp, u2, i, n, right) ==
    IF i <= n
    THEN trimRightOnHeap(
             unshiftRef(lerpLoopOnHeap(Append(h, <<>>), temp, u2, 0, Len(h) + 1),
                        right, h[temp][Len(h[temp])]),
             Len(h) + 1, u2, i + 1, n, right)
    ELSE h

\* third loop: trimmedPoints.push({...}) from leftPoints[i] and rightPoints[i]
RECURSIVE trimBlendOnHeap(_, _, _, _, _, _, _)
trimBlendOnHeap(h, left, right, alpha, i, n, trimmed) ==
    IF i <= n
    THEN trimBlendOnHeap(
             pushNew(h, trimmed, interpolate(elem(h, left, i), elem(h, right, i), alpha)),
             left, right, alpha, i + 1, n, trimmed)
    ELSE h

\* after the second loop: trimmedPoints is a new array at Len(h) + 1
trimmedOnHeap(h, rng, left, right) ==
    [heap |-> trimBlendOnHeap(Append(h, <<>>), left, right,
                              RDiv(RSub(h[rng].u2, h[rng].u1), RSub(One, h[rng].u1)),
                              0, Len(h[left]) - 1, Len(h) + 1),
     ret |-> Len(h) + 1]

\* after the first loop: rightPoints is a new array at Len(h) + 1 and
\* tempPoints = [...points] a new array at Len(h) + 2
trimRightHalfOnHeap(h, pts, rng, left) ==
    trimmedOnHeap(trimRightOnHeap(h \o << <<>>, h[pts] >>, Len(h) + 2, h[rng].u2,
                                  0, Len(h[pts]) - 1, Len(h) + 1),
                  rng, left, Len(h) + 1)

\* getTrimmedControlPoints: leftPoints is a new array at Len(h) + 1 and
\* tempPoints = [...points] a new array at Len(h) + 2
getTrimmedControlPointsOnHeap(h, pts, rng) ==
    trimRightHalfOnHeap(trimLeftOnHeap(h \o << <<>>, h[pts] >>, Len(h) + 2, h[rng].u1,
                                       0, Len(h[pts]) - 1, Len(h) + 1),
                        pts, rng, Len(h) + 1)

RECURSIVE derivPointsOnHeap(_, _, _, _, _)
derivPointsOnHeap(h, pts, n, i, dst) ==
    IF i < n
    THEN derivPointsOnHeap(
             pushNew(h, dst, scaledDifference(Num(n), elem(h, pts, i), elem(h, pts, i + 1))),
             pts, n, i + 1, dst)
    ELSE h

\* bezierDerivative: derivPoints is a new array at Len(h) + 1
bezierDerivativeOnHeap(h, pts, uu) ==
    evaluateBezierOnHeap(derivPointsOnHeap(Append(h, <<>>), pts, Len(h[pts]) - 1, 0, Len(h) + 1),
                         Len(h) + 1, uu)

\* evaluateBSpline reads the control points and, through coxDeBoor, the knots,
\* and returns a new {x, y}
evaluateBSplineOnHeap(h, cp, deg, uu, kn) ==
    [heap |-> Append(h, evaluateBSpline(Deref(h, cp), deg, uu, h[kn])), ret |-> Len(h) + 1]

RECURSIVE derivCtrlPtsOnHeap(_, _, _, _, _, _, _)
derivCtrlPtsOnHeap(h, cp, deg, kn, n, i, dst) ==
    IF i < n
    THEN derivCtrlPtsOnHeap(
             pushNew(h, dst,
                 scaledDifference(
                     RDiv(Num(deg), RSub(At(h[kn], i + deg + 1), At(h[kn], i + 1))),
                     elem(h, cp, i), elem(h, cp, i + 1))),
             cp, deg, kn, n, i + 1, dst)
    ELSE h

\* after the loop: knots.slice(1, -1) is a new array at Len(h) + 1
derivativeCurveOnHeap(h, dst, deg, uu, kn) ==
    evaluateBSplineOnHeap(Append(h, sliceInner(h[kn])), dst, deg - 1, uu, Len(h) + 1)

\* bsplineDerivative: derivCtrlPts is a new array at Len(h) + 1
bsplineDerivativeOnHeap(h, cp, deg, uu, kn) ==
    IF deg >= 1
    THEN derivativeCurveOnHeap(
             derivCtrlPtsOnHeap(Append(h, <<>>), cp, deg, kn, Len(h[cp]) - 1, 0, Len(h) + 1),
             Len(h) + 1, deg, uu, kn)
    ELSE [heap |-> Append(h, Pt(Zero, Zero)), ret |-> Len(h) + 1]

\* the samplers: curvePoints.push(evaluate...(...)), the new Point at Len(h) + 1
RECURSIVE hermiteSampleOnHeap(_, _, _, _, _)
hermiteSampleOnHeap(h, f, numPoints, i, dst) ==
    IF i <= numPoints
    THEN hermiteSampleOnHeap(
             pushNew(h, dst, evaluateHermite(h[f], RDiv(Num(i), Num(numPoints)))),
             f, numPoints, i + 1, dst)
    ELSE h

generateHermiteCurvePointsOnHeap(h, f, numPoints) ==
    [heap |-> hermiteSampleOnHeap(Append(h, <<>>), f, numPoints, 0, Len(h) + 1),
     ret |-> Len(h) + 1]

RECURSIVE bezierSampleOnHeap(_, _, _, _, _)
bezierSampleOnHeap(h, pts, numPoints, i, dst) ==
    IF i <= numPoints
    THEN bezierSampleOnHeap(
             pushRef(evaluateBezierOnHeap(h, pts, RDiv(Num(i), Num(numPoints))).heap,
                     dst, Len(h) + 1),
             pts, numPoints, i + 1, dst)
    ELSE h

generateBezierCurvePointsOnHeap(h, pts, numPoints) ==
    [heap |-> bezierSampleOnHeap(Append(h, <<>>), pts, numPoints, 0, Len(h) + 1),
     ret |-> Len(h) + 1]

RECURSIVE bsplineSampleOnHeap(_, _, _, _, _, _, _)
bsplineSampleOnHeap(h, cp, deg, kn, numPoints, i, dst) ==
    IF i <= numPoints
    THEN bsplineSampleOnHeap(
             pushRef(evaluateBSplineOnHeap(h, cp, deg,
                         RAdd(At(h[kn], deg),
                              RMul(RDiv(Num(i), Num(numPoints)),
                                   RSub(At(h[kn], Len(h[kn]) - deg - 1), At(h[kn], deg)))),
                         kn).heap,
                     dst, Len(h) + 1),
             cp, deg, kn, numPoints, i + 1, dst)
    ELSE h

generateBSplineCurvePointsOnHeap(h, cp, deg, kn, numPoints) ==
    [heap |-> bsplineSampleOnHeap(Append(h, <<>>), cp, deg, kn, numPoints, 0, Len(h) + 1),
     ret |-> Len(h) + 1]

----------------------------------------------------------------------------
(* Inputs *)

P(x, y) == Pt(Num(x), Num(y))

\* the control points of the trimming example
PointSet == {P(0, 0), P(1, 2), P(3, 3), P(4, 0)}

ExamplePolygon == <<P(0, 0), P(1, 2), P(3, 3), P(4, 0)>>

Polygons(minLen, maxLen) == UNION {[1..l -> PointSet] : l \in minLen..maxLen}

USet == {Rat(i, UDen) : i \in 0..UDen}

\* parameters inside and outside [0,1]
UWide == USet \cup {Num(-1), Num(2)}

\* TrimRange with its invariant 0 <= u1 < u2 <= 1
TrimRanges == {[u1 |-> w[1], u2 |-> w[2]] : w \in {w \in USet \X USet : RLt(w[1], w[2])}}

ExampleRange == [u1 |-> Rat(1, 4), u2 |-> Rat(3, 4)]

\* tangent vectors, of either sign
VectorSet == {P(0, 0), P(2, -3), P(-1, 4)}

HermiteForms ==
    {[P0 |-> a, P1 |-> b, T0 |-> c, T1 |-> d] :
        a \in PointSet, b \in PointSet, c \in VectorSet, d \in VectorSet}

ExampleForm == [P0 |-> P(0, 0), P1 |-> P(4, 0), T0 |-> P(2, -3), T1 |-> P(-1, 4)]

\* B-spline control points
CtrlSet == {P(1, 2), P(4, 0)}

\* what the caller holds for the modules a scenario does not exercise
IdleBezier == points = ExamplePolygon /\ range = ExampleRange
IdleHermite == form = ExampleForm
IdleBasis == bn = 0 /\ bk = 0
IdleBSpline == nCtrl = 0 /\ degree = 0 /\ ctrl = <<>> /\ knots = <<>>
IdleMatrix == matA = <<>> /\ matB = <<>> /\ vec = <<>>
IdleSampler == samples = 1
IdleStack == stack = <<>>
IdleEditor ==
    /\ editorCurve = <<>> /\ dirtyKnots = FALSE /\ dirtyCurve = FALSE
    /\ knotInput = <<>> /\ useIntersection = FALSE /\ dirtyDegree = FALSE
    /\ switches = 0

----------------------------------------------------------------------------
(* Bezier evaluation: the caller holds a polygon and a parameter *)

InitBezier ==
    /\ op = "init"
    /\ out = <<>>
    /\ points \in Polygons(1, MaxLen)
    /\ u \in USet
    /\ range = ExampleRange
    /\ IdleHermite /\ IdleBasis /\ IdleBSpline /\ IdleMatrix /\ IdleSampler /\ IdleStack /\ IdleEditor

DeCasteljau ==
    /\ op = "init"
    /\ op' = "deCasteljau"
    /\ out' = deCasteljau(points, u)
    /\ UNCHANGED <<inputs, knots, samples, editor, stack>>

EvaluateBezier ==
    /\ op = "init"
    /\ op' = "evaluateBezier"
    /\ out' = evaluateBezier(points, u)
    /\ UNCHANGED <<inputs, knots, samples, editor, stack>>

NextBezier == DeCasteljau \/ EvaluateBezier

SpecBezier == InitBezier /\ [][NextBezier]_vars

----------------------------------------------------------------------------
(* Bezier trimming: the caller holds a polygon and a TrimRange *)

InitTrim ==
    /\ op = "init"
    /\ out = <<>>
    /\ points \in Polygons(2, MaxLen)
    /\ range \in TrimRanges
    /\ u = Zero
    /\ IdleHermite /\ IdleBasis /\ IdleBSpline /\ IdleMatrix /\ IdleSampler /\ IdleStack /\ IdleEditor

GetTrimmedControlPoints ==
    /\ op = "init"
    /\ op' = "getTrimmedControlPoints"
    /\ out' = getTrimmedControlPoints(points, range)
    /\ UNCHANGED <<inputs, knots, samples, editor, stack>>

NextTrim == GetTrimmedControlPoints

SpecTrim == InitTrim /\ [][NextTrim]_vars

----------------------------------------------------------------------------
(* Hermite: the caller holds a HermiteForm and a parameter *)

InitHermite ==
    /\ op = "init"
    /\ out = <<>>
    /\ form \in HermiteForms
    /\ u \in USet
    /\ IdleBezier /\ IdleBasis /\ IdleBSpline /\ IdleMatrix /\ IdleSampler /\ IdleStack /\ IdleEditor

EvaluateHermite ==
    /\ op = "init"
    /\ op' = "evaluateHermite"
    /\ out' = evaluateHermite(form, u)
    /\ UNCHANGED <<inputs, knots, samples, editor, stack>>

HermiteToPolynomial ==
    /\ op = "init"
    /\ op' = "hermiteToPolynomial"
    /\ out' = hermiteToPolynomial(form)
    /\ UNCHANGED <<inputs, knots, samples, editor, stack>>

\* the round trip: the coefficients just returned are converted back
PolynomialToHermite ==
    /\ op = "hermiteToPolynomial"
    /\ op' = "polynomialToHermite"
    /\ out' = polynomialToHermite(out.x, out.y)
    /\ UNCHANGED <<inputs, knots, samples, editor, stack>>

NextHermite == EvaluateHermite \/ HermiteToPolynomial \/ PolynomialToHermite

SpecHermite == InitHermite /\ [][NextHermite]_vars

----------------------------------------------------------------------------
(* Evaluation of either polynomial curve *)

InitCurves == InitBezier \/ InitHermite

NextCurves == EvaluateBezier \/ EvaluateHermite

SpecCurves == InitCurves /\ [][NextCurves]_vars

----------------------------------------------------------------------------
(* Basis functions: the caller holds two integers and a parameter *)

InitBasis ==
    /\ op = "init"
    /\ out = <<>>
    /\ bn \in 0..MaxBinN
    /\ bk \in -1..(MaxBinN + 1)
    /\ u \in UWide
    /\ IdleBezier /\ IdleHermite /\ IdleBSpline /\ IdleMatrix /\ IdleSampler /\ IdleStack /\ IdleEditor

Binomial ==
    /\ op = "init"
    /\ op' = "binomial"
    /\ out' = binomial(bn, bk)
    /\ UNCHANGED <<inputs, knots, samples, editor, stack>>

Bernstein ==
    /\ op = "init"
    /\ op' = "bernstein"
    /\ out' = bernstein(bk, bn, u)
    /\ UNCHANGED <<inputs, knots, samples, editor, stack>>

\* every basis function of degree bn at u, as evaluateBezier's loop calls them
BernsteinRow ==
    /\ op = "init"
    /\ op' = "bernsteinRow"
    /\ out' = [i \in 1..(bn + 1) |-> bernstein(i - 1, bn, u)]
    /\ UNCHANGED <<inputs, knots, samples, editor, stack>>

\* the four Hermite basis functions at u, as evaluateHermite calls them
HermiteBasis ==
    /\ op = "init"
    /\ op' = "hermiteBasis"
    /\ out' = <<h0(u), h1(u), h2(u), h3(u)>>
    /\ UNCHANGED <<inputs, knots, samples, editor, stack>>

NextBasis == Binomial \/ Bernstein \/ BernsteinRow \/ HermiteBasis

SpecBasis == InitBasis /\ [][NextBasis]_vars

----------------------------------------------------------------------------
(* B-spline: the caller holds control points, a degree and a parameter,    *)
(* asks for a uniform knot vector, validates it, and evaluates only when   *)
(* validateKnots returned true                                             *)

InitBSpline ==
    /\ op = "init"
    /\ out = <<>>
    /\ nCtrl \in 1..MaxCtrl
    /\ degree \in 0..MaxDeg
    /\ ctrl \in [1..nCtrl -> CtrlSet]
    /\ knots = <<>>
    /\ u \in USet
    /\ IdleBezier /\ IdleHermite /\ IdleBasis /\ IdleMatrix /\ IdleSampler /\ IdleStack /\ IdleEditor

GenerateUniformKnots ==
    /\ op = "init"
    /\ op' = "generateUniformKnots"
    /\ knots' = generateUniformKnots(nCtrl, degree)
    /\ out' = knots'
    /\ UNCHANGED <<inputs, samples, editor, stack>>

ValidateKnots ==
    /\ op = "generateUniformKnots"
    /\ op' = "validateKnots"
    /\ out' = validateKnots(knots, nCtrl, degree)
    /\ UNCHANGED <<inputs, knots, samples, editor, stack>>

\* every basis function at u, as evaluateBSpline's loop calls them
CoxDeBoorRow ==
    /\ op = "validateKnots"
    /\ out = TRUE
    /\ op' = "coxDeBoorRow"
    /\ out' = [i \in 1..nCtrl |-> coxDeBoor(i - 1, degree, u, knots)]
    /\ UNCHANGED <<inputs, knots, samples, editor, stack>>

EvaluateBSpline ==
    /\ op = "validateKnots"
    /\ out = TRUE
    /\ op' = "evaluateBSpline"
    /\ out' = evaluateBSpline(ctrl, degree, u, knots)
    /\ UNCHANGED <<inputs, knots, samples, editor, stack>>

GenerateBSplineCurvePoints ==
    /\ op = "validateKnots"
    /\ out = TRUE
    /\ \E n \in 1..MaxSamples :
          /\ op' = "generateBSplineCurvePoints"
          /\ samples' = n
          /\ out' = generateBSplineCurvePoints(ctrl, degree, knots, n)
    /\ UNCHANGED <<inputs, knots, editor, stack>>

NextBSpline ==
    \/ GenerateUniformKnots
    \/ ValidateKnots
    \/ CoxDeBoorRow
    \/ EvaluateBSpline
    \/ GenerateBSplineCurvePoints

SpecBSpline == InitBSpline /\ [][NextBSpline]_vars

----------------------------------------------------------------------------
(* Knot input: the caller holds any vector of numbers, NaN (what parseFloat   *)
(* returns for a token that is not a number) included, and asks whether it is *)
(* a knot vector for nCtrl control points and the degree                       *)

KnotValues == {Zero, Rat(1, 2), One}

KnotInputs == UNION {[1..l -> KnotValues \cup {NaN}] : l \in 0..MaxKnots}

InitKnotInput ==
    /\ op = "init"
    /\ out = <<>>
    /\ knots \in KnotInputs
    /\ nCtrl \in 1..MaxCtrl
    /\ degree \in 0..MaxDeg
    /\ ctrl = <<>>
    /\ u = Zero
    /\ IdleBezier /\ IdleHermite /\ IdleBasis /\ IdleMatrix /\ IdleSampler /\ IdleStack /\ IdleEditor

ValidateKnotInput ==
    /\ op = "init"
    /\ op' = "validateKnots"
    /\ out' = validateKnots(knots, nCtrl, degree)
    /\ UNCHANGED <<inputs, knots, samples, editor, stack>>

NextKnotInput == ValidateKnotInput

SpecKnotInput == InitKnotInput /\ [][NextKnotInput]_vars

----------------------------------------------------------------------------
(* Linear algebra: the caller holds two matrices and a vector of any shapes *)

\* rows x cols matrices and vectors with pairwise different entries
MatrixA(rows, cols, s) == [i \in 1..rows |-> [j \in 1..cols |-> Rat(s + 3 * i - 2 * j, 2)]]
MatrixB(rows, cols, s) == [i \in 1..rows |-> [j \in 1..cols |-> Num(i * j - s + i)]]
Vector(len, s) == [j \in 1..len |-> Num(2 * j - s)]

Seeds == {0, 5}

InitMatrix ==
    /\ op = "init"
    /\ out = <<>>
    /\ \E s \in Seeds :
          /\ matA \in {MatrixA(r, c, s) : r \in 1..MaxDim, c \in 1..MaxDim}
          /\ matB \in {MatrixB(r, c, s) : r \in 1..MaxDim, c \in 1..MaxDim}
          /\ vec \in {Vector(l, s) : l \in 1..MaxDim}
    /\ u = Zero
    /\ IdleBezier /\ IdleHermite /\ IdleBasis /\ IdleBSpline /\ IdleSampler /\ IdleStack /\ IdleEditor

Multiply ==
    /\ op = "init"
    /\ op' = "multiply"
    /\ out' = multiply(matA, matB)
    /\ UNCHANGED <<inputs, knots, samples, editor, stack>>

MultiplyVector ==
    /\ op = "init"
    /\ op' = "multiplyVector"
    /\ out' = multiplyVector(matA, vec)
    /\ UNCHANGED <<inputs, knots, samples, editor, stack>>

NextMatrix == Multiply \/ MultiplyVector

SpecMatrix == InitMatrix /\ [][NextMatrix]_vars

----------------------------------------------------------------------------
(* Bezier conversion, reconstruction and derivative: the caller holds a       *)
(* polygon of any degree from 0 to MaxLen and a parameter                     *)

CornerSet == {P(0, 0), P(1, 2), P(4, 0)}

InitBezierTools ==
    /\ op = "init"
    /\ out = <<>>
    /\ points \in UNION {[1..l -> CornerSet] : l \in 1..(MaxLen + 1)}
    /\ u \in USet
    /\ range = ExampleRange
    /\ IdleHermite /\ IdleBasis /\ IdleBSpline /\ IdleMatrix /\ IdleSampler /\ IdleStack /\ IdleEditor

BezierToPolynomial ==
    /\ op = "init"
    /\ op' = "bezierToPolynomial"
    /\ out' = bezierToPolynomial(points)
    /\ UNCHANGED <<inputs, knots, samples, editor, stack>>

BezierDerivative ==
    /\ op = "init"
    /\ op' = "bezierDerivative"
    /\ out' = bezierDerivative(points, u)
    /\ UNCHANGED <<inputs, knots, samples, editor, stack>>

\* the caller's three points are P0, PStar and P3
CalculateIntersectionControlPoints ==
    /\ op = "init"
    /\ Len(points) = 3
    /\ op' = "calculateIntersectionControlPoints"
    /\ out' = calculateIntersectionControlPoints(points[1], points[2], points[3])
    /\ UNCHANGED <<inputs, knots, samples, editor, stack>>

NextBezierTools ==
    BezierToPolynomial \/ BezierDerivative \/ CalculateIntersectionControlPoints

SpecBezierTools == InitBezierTools /\ [][NextBezierTools]_vars

----------------------------------------------------------------------------
(* deCasteljau call by call: the caller holds a polygon of any length, the   *)
(* empty one included; each call that has not returned keeps its argument on *)
(* the stack                                                                 *)

InitRecursion ==
    /\ op = "init"
    /\ out = <<>>
    /\ points \in UNION {[1..l -> CornerSet] : l \in 0..MaxLen}
    /\ u \in USet
    /\ range = ExampleRange
    /\ IdleHermite /\ IdleBasis /\ IdleBSpline /\ IdleMatrix /\ IdleSampler /\ IdleStack
    /\ IdleEditor

\* the argument of the innermost call
top == stack[Len(stack)]

\* the caller's call
deCasteljauEnter ==
    /\ op = "init"
    /\ op' = "deCasteljau"
    /\ stack' = <<points>>
    /\ UNCHANGED <<out, inputs, knots, samples, editor>>

\* points.length !== 1: build newPoints and call deCasteljau(newPoints, u)
deCasteljauRecurse ==
    /\ op = "deCasteljau"
    /\ Len(top) # 1
    /\ Len(stack) < MaxStack
    /\ stack' = Append(stack, lerpLevel(top, u))
    /\ UNCHANGED <<op, out, inputs, knots, samples, editor>>

\* the same call with no room left on the stack
deCasteljauOverflow ==
    /\ op = "deCasteljau"
    /\ Len(top) # 1
    /\ Len(stack) = MaxStack
    /\ op' = "RangeError"
    /\ out' = Thrown
    /\ stack' = <<>>
    /\ UNCHANGED <<inputs, knots, samples, editor>>

\* points.length === 1: return points[0], through every caller
deCasteljauReturn ==
    /\ op = "deCasteljau"
    /\ Len(top) = 1
    /\ op' = "return"
    /\ out' = top[1]
    /\ stack' = <<>>
    /\ UNCHANGED <<inputs, knots, samples, editor>>

NextRecursion ==
    \/ deCasteljauEnter
    \/ deCasteljauRecurse
    \/ deCasteljauOverflow
    \/ deCasteljauReturn

SpecRecursion == InitRecursion /\ [][NextRecursion]_vars

----------------------------------------------------------------------------
(* Subdivision: the caller holds a cubic polygon, a degree and a parameter,  *)
(* asks for the subdivision matrix and applies it to the polygon's           *)
(* coordinates                                                               *)

InitSubdivision ==
    /\ op = "init"
    /\ out = <<>>
    /\ points \in [1..4 -> CornerSet]
    /\ bn \in 2..4
    /\ bk = 0
    /\ u \in USet
    /\ range = ExampleRange
    /\ IdleHermite /\ IdleBSpline /\ IdleMatrix /\ IdleSampler /\ IdleStack /\ IdleEditor

SubdivisionMatrix ==
    /\ op = "init"
    /\ op' = "subdivisionMatrix"
    /\ out' = subdivisionMatrix(bn, u)
    /\ UNCHANGED <<inputs, knots, samples, editor, stack>>

\* multiplyVector(subdivisionMatrix(n, u), coords) on each axis
Subdivide ==
    /\ op = "init"
    /\ bn = Len(points) - 1
    /\ op' = "subdivide"
    /\ out' = [x |-> multiplyVector(subdivisionMatrix(bn, u), xCoords(points)),
               y |-> multiplyVector(subdivisionMatrix(bn, u), yCoords(points))]
    /\ UNCHANGED <<inputs, knots, samples, editor, stack>>

NextSubdivision == SubdivisionMatrix \/ Subdivide

SpecSubdivision == InitSubdivision /\ [][NextSubdivision]_vars

----------------------------------------------------------------------------
(* B-spline over any knot vector of real numbers, repeated knots included,   *)
(* that validateKnots has accepted for the caller's control points and degree *)

InitNonUniform ==
    /\ nCtrl \in 1..MaxCtrl
    /\ degree \in 0..MaxDeg
    /\ nCtrl + degree <= MaxKnots
    /\ ctrl \in [1..nCtrl -> CtrlSet]
    /\ knots \in [1..(nCtrl + degree + 1) -> KnotValues]
    /\ op = "validateKnots"
    /\ out = validateKnots(knots, nCtrl, degree)
    /\ out = TRUE
    /\ u \in UWide
    /\ IdleBezier /\ IdleHermite /\ IdleBasis /\ IdleMatrix /\ IdleSampler /\ IdleStack /\ IdleEditor

BSplineDerivative ==
    /\ op = "validateKnots"
    /\ out = TRUE
    /\ op' = "bsplineDerivative"
    /\ out' = bsplineDerivative(ctrl, degree, u, knots)
    /\ UNCHANGED <<inputs, knots, samples, editor, stack>>

NextNonUniform == CoxDeBoorRow \/ EvaluateBSpline \/ BSplineDerivative

SpecNonUniform == InitNonUniform /\ [][NextNonUniform]_vars

----------------------------------------------------------------------------
(* B-spline over the uniform knot vector: the caller of SpecBSpline asks for *)
(* the basis functions, the point and the derivative at its parameter        *)

NextUniform ==
    \/ GenerateUniformKnots
    \/ ValidateKnots
    \/ CoxDeBoorRow
    \/ EvaluateBSpline
    \/ BSplineDerivative

SpecUniform == InitBSpline /\ [][NextUniform]_vars

----------------------------------------------------------------------------
(* Sampling of the three curve types *)

GenerateHermiteCurvePoints ==
    /\ op = "init"
    /\ \E n \in 1..MaxSamples :
          /\ op' = "generateHermiteCurvePoints"
          /\ samples' = n
          /\ out' = generateHermiteCurvePoints(form, n)
    /\ UNCHANGED <<inputs, knots, editor, stack>>

GenerateBezierCurvePoints ==
    /\ op = "init"
    /\ \E n \in 1..MaxSamples :
          /\ op' = "generateBezierCurvePoints"
          /\ samples' = n
          /\ out' = generateBezierCurvePoints(points, n)
    /\ UNCHANGED <<inputs, knots, editor, stack>>

\* the samplers take no parameter: the caller's u stays at 0
InitSamplers == (InitBezier \/ InitHermite \/ InitNonUniform) /\ u = Zero

NextSamplers ==
    GenerateHermiteCurvePoints \/ GenerateBezierCurvePoints \/ GenerateBSplineCurvePoints

SpecSamplers == InitSamplers /\ [][NextSamplers]_vars

----------------------------------------------------------------------------
(* BSplineEditor: control points, degree, knots and the displayed curve are   *)
(* component state; an event handler replaces state and the two effects run  *)
(* at the commit that follows, each reading the state of that render          *)

InitialControlPoints == <<P(100, 200), P(200, 100), P(300, 150), P(400, 100), P(500, 200)>>

InitialDegree == 3

SliderMaxDegree == 5

MinControlPoints == 2

\* positions a control point is dragged to
DragTargets == {P(150, 150)}

Min(a, b) == IF a < b THEN a ELSE b

\* The knot text field holds comma-separated tokens.  A token is a decimal
\* numeral, a numeral followed by other characters ("1px"), a word with no
\* numeric prefix, or nothing at all
Numeral(r) == [kind |-> "numeral", value |-> r]
Prefixed(r) == [kind |-> "prefixed", value |-> r]
Word == [kind |-> "word", value |-> NaN]
EmptyToken == [kind |-> "empty", value |-> NaN]

\* parseFloat(k.trim()): the number of the longest numeric prefix, NaN when
\* there is none
parseFloat(tok) == IF tok.kind \in {"numeral", "prefixed"} THEN tok.value ELSE NaN

\* knotInput.split(',').map(k => parseFloat(k.trim()))
parseKnots(text) == [i \in 1..Len(text) |-> parseFloat(text[i])]

\* uniformKnots.join(", "): each number as the numeral that reads back as it
join(kn) == [i \in 1..Len(kn) |-> Numeral(kn[i])]

\* len tokens, zeros then ones
StepText(len, ones) == [i \in 1..len |-> Numeral(IF i > len - ones THEN One ELSE Zero)]

\* what the user types when the field asks for len knots: a non-decreasing
\* vector, the same with a word for a knot, with a unit in the last token,
\* a decreasing vector, and an emptied field
TypedTexts(len) ==
    { StepText(len, len \div 2),
      [StepText(len, len \div 2) EXCEPT ![2] = Word],
      [StepText(len, len \div 2) EXCEPT ![len] = Prefixed(One)],
      [StepText(len, len \div 2) EXCEPT ![1] = Numeral(One)],
      <<EmptyToken>> }

\* what the curve effect hands to the evaluation functions; NoCall when it
\* returned before calling them
NoCall == <<>>

\* the state of the first render: both effects are due
InitBSplineEditor ==
    /\ op = "init"
    /\ out = <<>>
    /\ ctrl = InitialControlPoints
    /\ nCtrl = Len(InitialControlPoints)
    /\ degree = InitialDegree
    /\ knots = <<>>
    /\ editorCurve = <<>>
    /\ knotInput = <<EmptyToken>>
    /\ samples = MaxSamples
    /\ IdleStack
    /\ dirtyKnots = TRUE
    /\ dirtyCurve = TRUE
    /\ useIntersection = FALSE
    /\ dirtyDegree = FALSE
    /\ switches = 0
    /\ u = Rat(1, 2)
    /\ IdleBezier /\ IdleHermite /\ IdleBasis /\ IdleMatrix

\* no effect is due: the handlers run between commits
Settled == ~dirtyKnots /\ ~dirtyCurve

\* setControlPoints with an array of the same length; the first or the last
\* point is dragged
handleControlPointMove ==
    /\ Settled
    /\ \E index \in {1, Len(ctrl)}, point \in DragTargets :
          ctrl' = [ctrl EXCEPT ![index] = point]
    /\ op' = "handleControlPointMove"
    /\ dirtyCurve' = TRUE
    /\ UNCHANGED <<out, points, u, range, form, bn, bk, nCtrl, degree, knots, samples,
                   matA, matB, vec, editorCurve, dirtyKnots,
                   knotInput, useIntersection, dirtyDegree, switches, stack>>

handleAddPoint ==
    /\ Settled
    /\ Len(ctrl) < MaxEditorPoints
    /\ ctrl' = Append(ctrl, Pt(RAdd(ctrl[Len(ctrl)].x, Num(50)), ctrl[Len(ctrl)].y))
    /\ nCtrl' = Len(ctrl')
    /\ op' = "handleAddPoint"
    /\ dirtyKnots' = TRUE
    /\ dirtyCurve' = TRUE
    /\ UNCHANGED <<out, points, u, range, form, bn, bk, degree, knots, samples,
                   matA, matB, vec, editorCurve,
                   knotInput, useIntersection, dirtyDegree, switches, stack>>

handleRemovePoint ==
    /\ Settled
    /\ Len(ctrl) > MinControlPoints
    /\ ctrl' = SubSeq(ctrl, 1, Len(ctrl) - 1)
    /\ nCtrl' = Len(ctrl')
    /\ op' = "handleRemovePoint"
    /\ dirtyKnots' = TRUE
    /\ dirtyCurve' = TRUE
    /\ UNCHANGED <<out, points, u, range, form, bn, bk, degree, knots, samples,
                   matA, matB, vec, editorCurve,
                   knotInput, useIntersection, dirtyDegree, switches, stack>>

\* the degree slider: value in min..max, setDegree(Math.min(value, length - 1))
handleDegreeChange ==
    /\ Settled
    /\ \E value \in 1..Min(SliderMaxDegree, Len(ctrl) - 1) :
          /\ Min(value, Len(ctrl) - 1) # degree
          /\ degree' = Min(value, Len(ctrl) - 1)
    /\ op' = "setDegree"
    /\ dirtyKnots' = TRUE
    /\ dirtyCurve' = TRUE
    /\ UNCHANGED <<out, points, u, range, form, bn, bk, nCtrl, ctrl, knots, samples,
                   matA, matB, vec, editorCurve,
                   knotInput, useIntersection, dirtyDegree, switches, stack>>

\* setKnotInput(e.target.value)
handleKnotInputChange ==
    /\ Settled
    /\ \E text \in TypedTexts(Len(ctrl) + degree + 1) :
          /\ text # knotInput
          /\ knotInput' = text
    /\ op' = "handleKnotInputChange"
    /\ UNCHANGED <<out, points, u, range, form, bn, bk, nCtrl, degree, ctrl, knots, samples,
                   matA, matB, vec, editorCurve, dirtyKnots, dirtyCurve,
                   useIntersection, dirtyDegree, switches, stack>>

\* the Update button: the parsed knots when validateKnots accepts them,
\* otherwise generateUniformKnots(controlPoints.length, degree)
handleUpdateKnots ==
    /\ Settled
    /\ IF validateKnots(parseKnots(knotInput), Len(ctrl), degree)
       THEN /\ knots' = parseKnots(knotInput)
            /\ knotInput' = knotInput
       ELSE /\ knots' = generateUniformKnots(Len(ctrl), degree)
            /\ knotInput' = join(generateUniformKnots(Len(ctrl), degree))
    /\ op' = "handleUpdateKnots"
    /\ dirtyCurve' = TRUE
    /\ UNCHANGED <<out, points, u, range, form, bn, bk, nCtrl, degree, ctrl, samples,
                   matA, matB, vec, editorCurve, dirtyKnots, useIntersection, dirtyDegree, switches, stack>>

\* the Uniform preset button
uniformPreset ==
    /\ Settled
    /\ knots' = generateUniformKnots(Len(ctrl), degree)
    /\ knotInput' = join(generateUniformKnots(Len(ctrl), degree))
    /\ op' = "uniformPreset"
    /\ dirtyCurve' = TRUE
    /\ UNCHANGED <<out, points, u, range, form, bn, bk, nCtrl, degree, ctrl, samples,
                   matA, matB, vec, editorCurve, dirtyKnots, useIntersection, dirtyDegree, switches, stack>>

\* the Clamped preset button builds the same vector in place: k+1 zeros,
\* i/(n-k) for i = 1..n-k-1, k+1 ones
clampedPreset ==
    /\ Settled
    /\ knots' = pushRepeated(pushInternal(pushRepeated(<<>>, Zero, 0, degree),
                                          1, Len(ctrl), degree), One, 0, degree)
    /\ knotInput' = join(knots')
    /\ op' = "clampedPreset"
    /\ dirtyCurve' = TRUE
    /\ UNCHANGED <<out, points, u, range, form, bn, bk, nCtrl, degree, ctrl, samples,
                   matA, matB, vec, editorCurve, dirtyKnots, useIntersection, dirtyDegree, switches, stack>>

\* the effect on [controlPoints.length, degree]: setKnots(uniformKnots) and
\* setKnotInput(uniformKnots.join(", "))
knotsEffect ==
    IF dirtyKnots
    THEN /\ knots' = generateUniformKnots(Len(ctrl), Min(degree, Len(ctrl) - 1))
         /\ knotInput' = join(generateUniformKnots(Len(ctrl), Min(degree, Len(ctrl) - 1)))
    ELSE UNCHANGED <<knots, knotInput>>

\* the curve effect run without its validity check
curveEffectUnchecked == dirtyCurve

\* the check that opens the curve effect: the effect goes on to evaluate
\* only when validateKnots accepts the knots of this render
curveEffectEvaluates == dirtyCurve /\ validateKnots(knots, Len(ctrl), degree)

\* the effect on [controlPoints, degree, knots, ...]: returns before
\* setCurvePoints when validateKnots rejects the knots of this render
curveEffect ==
    IF curveEffectEvaluates
    THEN /\ editorCurve' = generateBSplineCurvePoints(ctrl, degree, knots, samples)
         /\ out' = [knots |-> knots, n |-> Len(ctrl), degree |-> degree]
    ELSE /\ editorCurve' = editorCurve
         /\ out' = NoCall

\* one commit: the effects that are due run in order on the state of this
\* render; setKnots makes the curve effect due at the next commit
commitEffects ==
    /\ dirtyKnots \/ dirtyCurve
    /\ knotsEffect
    /\ curveEffect
    /\ dirtyKnots' = FALSE
    /\ dirtyCurve' = dirtyKnots
    /\ op' = "useEffect"
    /\ UNCHANGED <<points, u, range, form, bn, bk, nCtrl, degree, ctrl, samples,
                   matA, matB, vec, useIntersection, dirtyDegree, switches, stack>>

NextBSplineEditor ==
    \/ handleControlPointMove
    \/ handleAddPoint
    \/ handleRemovePoint
    \/ handleDegreeChange
    \/ commitEffects

SpecBSplineEditor == InitBSplineEditor /\ [][NextBSplineEditor]_vars

\* the Knots tab: the text field, the Update button and the presets, with the
\* events that change the control-point count and the degree
NextKnotEditor ==
    \/ handleAddPoint
    \/ handleRemovePoint
    \/ handleDegreeChange
    \/ handleKnotInputChange
    \/ handleUpdateKnots
    \/ uniformPreset
    \/ clampedPreset
    \/ commitEffects

SpecKnotEditor == InitBSplineEditor /\ [][NextKnotEditor]_vars

----------------------------------------------------------------------------
(* BezierEditor: degree, control points and the Intersection Recovery switch *)
(* are component state.  The degree effect runs after a render in which the  *)
(* degree changed and schedules new control points for the next render; the  *)
(* curve effect of the same commit still reads the control points of this    *)
(* render                                                                    *)

BezierInitialControlPoints == <<P(100, 250), P(200, 100), P(400, 100), P(500, 250)>>

CubicDegree == 3

QuadraticDegree == 2

\* the first render: both effects are due
InitBezierEditor ==
    /\ op = "init"
    /\ out = <<>>
    /\ points = BezierInitialControlPoints
    /\ degree = CubicDegree
    /\ useIntersection = FALSE
    /\ editorCurve = <<>>
    /\ samples = MaxSamples
    /\ IdleStack
    /\ dirtyDegree = TRUE
    /\ dirtyCurve = TRUE
    /\ dirtyKnots = FALSE
    /\ knotInput = <<>>
    /\ switches = 0
    /\ range = ExampleRange
    /\ u = Rat(1, 2)
    /\ nCtrl = 0 /\ ctrl = <<>> /\ knots = <<>>
    /\ IdleHermite /\ IdleBasis /\ IdleMatrix

\* an effect threw: the component is unmounted
Crashed == op = "useEffect" /\ out.effective = Thrown

\* no effect is due and the editor is on screen
BezierSettled == ~dirtyDegree /\ ~dirtyCurve /\ ~Crashed

\* a control point is dragged on the canvas
bezierControlPointMove ==
    /\ BezierSettled
    /\ \E index \in 1..Len(points), point \in DragTargets :
          points' = [points EXCEPT ![index] = point]
    /\ op' = "handleControlPointMove"
    /\ dirtyCurve' = TRUE
    /\ UNCHANGED <<out, u, range, form, bn, bk, nCtrl, degree, ctrl, knots, samples,
                   matA, matB, vec, editorCurve, dirtyKnots, knotInput,
                   useIntersection, dirtyDegree, switches, stack>>

\* the Degree switch: setDegree(checked ? 3 : 2)
setDegree ==
    /\ BezierSettled
    /\ switches < MaxSwitches
    /\ switches' = switches + 1
    /\ degree' = IF degree = CubicDegree THEN QuadraticDegree ELSE CubicDegree
    /\ op' = "setDegree"
    /\ dirtyDegree' = TRUE
    /\ dirtyCurve' = TRUE
    /\ UNCHANGED <<out, points, u, range, form, bn, bk, nCtrl, ctrl, knots, samples,
                   matA, matB, vec, editorCurve, dirtyKnots, knotInput, useIntersection, stack>>

\* the Intersection Recovery switch, rendered only while degree === 3
setUseIntersection ==
    /\ BezierSettled
    /\ degree = CubicDegree
    /\ useIntersection' = ~useIntersection
    /\ op' = "setUseIntersection"
    /\ dirtyCurve' = TRUE
    /\ UNCHANGED <<out, points, u, range, form, bn, bk, nCtrl, degree, ctrl, knots, samples,
                   matA, matB, vec, editorCurve, dirtyKnots, knotInput, dirtyDegree,
                   switches, stack>>

\* { x: (2*p1.x + p.x)/3, y: (2*p1.y + p.y)/3 }
towardsMiddle(p1, p) ==
    Pt(RDiv(RAdd(RMul(Num(2), p1.x), p.x), Num(3)),
       RDiv(RAdd(RMul(Num(2), p1.y), p.y), Num(3)))

\* the degree effect: the control points it passes to setControlPoints
degreeEffect(cp, deg) ==
    IF deg = QuadraticDegree /\ Len(cp) = 4 THEN <<cp[1], cp[2], cp[4]>>
    ELSE IF deg = CubicDegree /\ Len(cp) = 3
    THEN <<cp[1], towardsMiddle(cp[2], cp[1]), towardsMiddle(cp[2], cp[3]), cp[3]>>
    ELSE cp

\* the midpoint of p0 and p3, used as P*
midpoint(p0, p3) ==
    Pt(RDiv(RAdd(p0.x, p3.x), Num(2)), RDiv(RAdd(p0.y, p3.y), Num(2)))

\* the intersection branch: [p0, p1, p2, p3]; reading p3.x throws when
\* controlPoints[3] is undefined
starPoints(cp) ==
    IF Len(cp) < 4 THEN Thrown
    ELSE <<cp[1],
           calculateIntersectionControlPoints(cp[1], midpoint(cp[1], cp[4]), cp[4])[1],
           calculateIntersectionControlPoints(cp[1], midpoint(cp[1], cp[4]), cp[4])[2],
           cp[4]>>

\* if (useIntersection && degree === 3)
takesIntersection(use, deg) == use /\ deg = CubicDegree

\* the control points the curve is drawn from
effectiveControlPoints(cp, use, deg) ==
    IF takesIntersection(use, deg) THEN starPoints(cp) ELSE cp

\* what the curve effect of this render read and built
bezierCurveEffect(cp, use, deg) ==
    [intersection |-> takesIntersection(use, deg),
     length |-> Len(cp),
     effective |-> effectiveControlPoints(cp, use, deg)]

\* one commit: the degree effect, then the curve effect, both on the state
\* of this render; setControlPoints makes the curve effect due again
commitBezierEffects ==
    /\ dirtyDegree \/ dirtyCurve
    /\ ~Crashed
    /\ op' = "useEffect"
    /\ out' = bezierCurveEffect(points, useIntersection, degree)
    /\ IF effectiveControlPoints(points, useIntersection, degree) = Thrown
       THEN UNCHANGED <<points, editorCurve>>
       ELSE /\ points' = IF dirtyDegree THEN degreeEffect(points, degree) ELSE points
            /\ editorCurve' = generateBezierCurvePoints(
                                  effectiveControlPoints(points, useIntersection, degree),
                                  samples)
    /\ dirtyDegree' = FALSE
    /\ dirtyCurve' = dirtyDegree
    /\ UNCHANGED <<u, range, form, bn, bk, nCtrl, degree, ctrl, knots, samples,
                   matA, matB, vec, dirtyKnots, knotInput, useIntersection, switches, stack>>

NextBezierEditor ==
    \/ bezierControlPointMove
    \/ setDegree
    \/ setUseIntersection
    \/ commitBezierEffects

SpecBezierEditor == InitBezierEditor /\ [][NextBezierEditor]_vars

----------------------------------------------------------------------------
(* The caller's objects across a call: the caller holds a polygon, a         *)
(* TrimRange and a HermiteForm, or control points and an accepted knot       *)
(* vector, and keeps them on the heap the operation runs on                  *)

InitFrame ==
    /\ \/ /\ op = "init"
          /\ out = <<>>
          /\ points \in UNION {[1..l -> CornerSet] : l \in 1..MaxLen}
          /\ range \in {ExampleRange, [u1 |-> Zero, u2 |-> One]}
          /\ form = ExampleForm
          /\ IdleBasis /\ IdleBSpline /\ IdleMatrix /\ IdleSampler /\ IdleStack /\ IdleEditor
       \/ InitHermite
       \/ InitNonUniform
    /\ u = Rat(1, UDen)

DeCasteljauOnHeap ==
    /\ op = "init"
    /\ op' = "deCasteljauOnHeap"
    /\ out' = deCasteljauOnHeap(CallerHeap(points, range, knots, form), arrayRef(points), u)
    /\ UNCHANGED <<inputs, knots, samples, editor, stack>>

EvaluateBezierOnHeap ==
    /\ op = "init"
    /\ op' = "evaluateBezierOnHeap"
    /\ out' = evaluateBezierOnHeap(CallerHeap(points, range, knots, form), arrayRef(points), u)
    /\ UNCHANGED <<inputs, knots, samples, editor, stack>>

GetTrimmedControlPointsOnHeap ==
    /\ op = "init"
    /\ op' = "getTrimmedControlPointsOnHeap"
    /\ out' = getTrimmedControlPointsOnHeap(CallerHeap(points, range, knots, form),
                                             arrayRef(points), rangeRef(points))
    /\ UNCHANGED <<inputs, knots, samples, editor, stack>>

BezierDerivativeOnHeap ==
    /\ op = "init"
    /\ op' = "bezierDerivativeOnHeap"
    /\ out' = bezierDerivativeOnHeap(CallerHeap(points, range, knots, form), arrayRef(points), u)
    /\ UNCHANGED <<inputs, knots, samples, editor, stack>>

GenerateBezierCurvePointsOnHeap ==
    /\ op = "init"
    /\ \E n \in 1..MaxSamples :
          /\ op' = "generateBezierCurvePointsOnHeap"
          /\ samples' = n
          /\ out' = generateBezierCurvePointsOnHeap(CallerHeap(points, range, knots, form),
                                                     arrayRef(points), n)
    /\ UNCHANGED <<inputs, knots, editor, stack>>

GenerateHermiteCurvePointsOnHeap ==
    /\ op = "init"
    /\ \E n \in 1..MaxSamples :
          /\ op' = "generateHermiteCurvePointsOnHeap"
          /\ samples' = n
          /\ out' = generateHermiteCurvePointsOnHeap(CallerHeap(points, range, knots, form),
                                                      formRef(points), n)
    /\ UNCHANGED <<inputs, knots, editor, stack>>

EvaluateBSplineOnHeap ==
    /\ op = "validateKnots"
    /\ out = TRUE
    /\ op' = "evaluateBSplineOnHeap"
    /\ out' = evaluateBSplineOnHeap(CallerHeap(ctrl, range, knots, form), arrayRef(ctrl),
                                     degree, u, knotsRef(ctrl))
    /\ UNCHANGED <<inputs, knots, samples, editor, stack>>

BSplineDerivativeOnHeap ==
    /\ op = "validateKnots"
    /\ out = TRUE
    /\ op' = "bsplineDerivativeOnHeap"
    /\ out' = bsplineDerivativeOnHeap(CallerHeap(ctrl, range, knots, form), arrayRef(ctrl),
                                       degree, u, knotsRef(ctrl))
    /\ UNCHANGED <<inputs, knots, samples, editor, stack>>

GenerateBSplineCurvePointsOnHeap ==
    /\ op = "validateKnots"
    /\ out = TRUE
    /\ \E n \in 1..MaxSamples :
          /\ op' = "generateBSplineCurvePointsOnHeap"
          /\ samples' = n
          /\ out' = generateBSplineCurvePointsOnHeap(CallerHeap(ctrl, range, knots, form),
                                                      arrayRef(ctrl), degree, knotsRef(ctrl), n)
    /\ UNCHANGED <<inputs, knots, editor, stack>>

NextFrame ==
    \/ DeCasteljauOnHeap
    \/ EvaluateBezierOnHeap
    \/ GetTrimmedControlPointsOnHeap
    \/ BezierDerivativeOnHeap
    \/ GenerateBezierCurvePointsOnHeap
    \/ GenerateHermiteCurvePointsOnHeap
    \/ EvaluateBSplineOnHeap
    \/ BSplineDerivativeOnHeap
    \/ GenerateBSplineCurvePointsOnHeap

SpecFrame == InitFrame /\ [][NextFrame]_vars

----------------------------------------------------------------------------
(* Properties *)

RECURSIVE SumSeq(_)
SumSeq(q) == IF q = <<>> THEN Zero ELSE RAdd(q[1], SumSeq(Tail(q)))

RECURSIVE Factorial(_)
Factorial(n) == IF n = 0 THEN 1 ELSE n * Factorial(n - 1)

\* the parameter of the original curve at local parameter v of the trim range
Reparam(r, v) == RAdd(r.u1, RMul(v, RSub(r.u2, r.u1)))

\* a*v^3 + b*v^2 + c*v + d
Cubic(c, v) ==
    RAdd(RAdd(RAdd(RMul(c.a, RMul(v, RMul(v, v))), RMul(c.b, RMul(v, v))), RMul(c.c, v)), c.d)

\* C1: the polygon returned by getTrimmedControlPoints, evaluated at any local
\* parameter v, gives the original curve's point at u1 + v*(u2-u1)
C1_TrimmedCurveIsSubCurve ==
    op = "getTrimmedControlPoints" =>
        \A v \in USet : evaluateBezier(out, v) = evaluateBezier(points, Reparam(range, v))

\* C2: over a valid clamped knot vector the basis functions sum to one at every
\* parameter of the domain, the final knot included
C2_BSplinePartitionOfUnity ==
    op = "coxDeBoorRow" => SumSeq(out) = One

\* C3: with a clamped knot vector the curve starts at the first control point and
\* ends at the last, and so does the sampled curve
C3_ClampedEndpoints ==
    /\ op = "evaluateBSpline" /\ u = At(knots, degree) => out = ctrl[1]
    /\ op = "evaluateBSpline" /\ u = At(knots, nCtrl) => out = ctrl[nCtrl]
    /\ op = "generateBSplineCurvePoints" => out[1] = ctrl[1] /\ out[Len(out)] = ctrl[nCtrl]

\* C4: de Casteljau's recursion and the Bernstein sum return the same point for
\* every polygon (of one point or more) and every parameter
C4_DeCasteljauEqualsBernstein ==
    /\ op = "deCasteljau" => out = evaluateBezier(points, u)
    /\ op = "evaluateBezier" => out = deCasteljau(points, u)

C4_Witness == op = "deCasteljau" /\ points = ExamplePolygon /\ u = Rat(1, 4)

\* C5: converting a HermiteForm to polynomial coefficients and back returns the
\* same form in all four fields and both axes
C5_HermiteRoundTrip ==
    op = "polynomialToHermite" => out = form

C5_Witness == op = "polynomialToHermite" /\ form = ExampleForm

\* C6: the coefficients returned by hermiteToPolynomial interpolate P0, P1, T0, T1
\* and give the same curve as evaluateHermite at every parameter
HermiteCoefficients(c, p0, p1, t0, t1) ==
    /\ c.d = p0
    /\ RAdd(RAdd(RAdd(c.a, c.b), c.c), c.d) = p1
    /\ c.c = t0
    /\ RAdd(RAdd(RMul(Num(3), c.a), RMul(Num(2), c.b)), c.c) = t1

C6_HermitePolynomial ==
    op = "hermiteToPolynomial" =>
        /\ HermiteCoefficients(out.x, form.P0.x, form.P1.x, form.T0.x, form.T1.x)
        /\ HermiteCoefficients(out.y, form.P0.y, form.P1.y, form.T0.y, form.T1.y)
        /\ \A v \in UWide :
              Pt(Cubic(out.x, v), Cubic(out.y, v)) = evaluateHermite(form, v)

C6_Witness ==
    op = "hermiteToPolynomial" /\ form.T0 = P(2, -3) /\ form.T1 = P(-1, 4) /\ form.P0 # form.P1

\* C7: a Hermite curve starts at P0 and ends at P1 whatever the tangents, and a
\* Bezier curve of any degree starts at its first and ends at its last point
C7_EndpointInterpolation ==
    /\ op = "evaluateHermite" /\ u = Zero => out = form.P0
    /\ op = "evaluateHermite" /\ u = One => out = form.P1
    /\ op = "evaluateBezier" /\ u = Zero => out = points[1]
    /\ op = "evaluateBezier" /\ u = One => out = points[Len(points)]

C7_Witness ==
    op = "evaluateBezier" /\ u = One /\ Len(points) = 3 /\ points[3] = P(1, 2)

\* C8: h0 + h1 is 1 at every parameter, and the Bernstein polynomials of any
\* degree sum to 1 at every parameter
C8_PolynomialPartitionOfUnity ==
    /\ op = "hermiteBasis" => RAdd(out[1], out[2]) = One
    /\ op = "bernsteinRow" => SumSeq(out) = One

C8_Witness == op = "bernsteinRow" /\ bn = 3 /\ u = Rat(1, 4)

UniformKnotShape(kn, n, k) ==
    /\ Len(kn) = n + k + 1
    /\ \A i \in 1..(Len(kn) - 1) : RLe(kn[i], kn[i + 1])
    /\ \A i \in 1..(k + 1) : kn[i] = Zero
    /\ Cardinality({i \in 1..Len(kn) : kn[i] = Zero}) = k + 1
    /\ \A i \in (Len(kn) - k)..Len(kn) : kn[i] = One
    /\ Cardinality({i \in 1..Len(kn) : kn[i] = One}) = k + 1
    /\ \A i \in 1..(n - k - 1) : kn[k + 1 + i] = Rat(i, n - k)

\* C10 as stated: for every n >= 1 and k >= 0 the uniform knot vector has the
\* clamped shape and length n+k+1
C10_UniformKnotsAnyDegree ==
    op = "generateUniformKnots" =>
        UniformKnotShape(out, nCtrl, degree) /\ validateKnots(out, nCtrl, degree)

\* C10 amended: for every n >= 1 and 0 <= k <= n-1 the uniform knot vector has
\* length n+k+1, is non-decreasing, has exactly k+1 zeros in front, exactly k+1
\* ones at the end and interior knots i/(n-k), and validateKnots accepts it;
\* for k >= n it is k+1 zeros followed by k+1 ones, of length 2k+2
C10_UniformKnotsClamped ==
    /\ op = "generateUniformKnots" /\ degree <= nCtrl - 1 =>
          UniformKnotShape(out, nCtrl, degree) /\ validateKnots(out, nCtrl, degree)
    /\ op = "validateKnots" /\ degree <= nCtrl - 1 => out = TRUE
    /\ op = "generateUniformKnots" /\ degree >= nCtrl =>
          out = [i \in 1..(2 * degree + 2) |-> IF i <= degree + 1 THEN Zero ELSE One]

C10_Witness == op = "validateKnots" /\ nCtrl = 4 /\ degree = 2 /\ out = TRUE

\* knots[i] <= knots[i+1] for every adjacent pair
NonDecreasing(kn) == \A i \in 1..(Len(kn) - 1) : RLe(kn[i], kn[i + 1])

\* C11: validateKnots returns true exactly when the vector has length n+k+1 and
\* knots[i] <= knots[i+1] for every adjacent pair, and false otherwise
C11_ValidateKnotsExact ==
    op = "validateKnots" =>
        out = (Len(knots) = nCtrl + degree + 1 /\ NonDecreasing(knots))

\* C12: multiply throws when cols(A) # rows(B) and multiplyVector when
\* cols(A) # v.length, returning nothing; otherwise they return the standard
\* product, of shape rows(A) x cols(B), resp. of length rows(A)
C12_MatrixProduct ==
    /\ op = "multiply" =>
          IF Len(matA[1]) # Len(matB) THEN out = Thrown
          ELSE /\ Len(out) = Len(matA)
               /\ \A i \in 1..Len(matA) :
                     /\ Len(out[i]) = Len(matB[1])
                     /\ \A j \in 1..Len(matB[1]) :
                           out[i][j] = SumSeq([k \in 1..Len(matB) |->
                                                  RMul(matA[i][k], matB[k][j])])
    /\ op = "multiplyVector" =>
          IF Len(matA[1]) # Len(vec) THEN out = Thrown
          ELSE /\ Len(out) = Len(matA)
               /\ \A i \in 1..Len(matA) :
                     out[i] = SumSeq([k \in 1..Len(vec) |-> RMul(matA[i][k], vec[k])])

C12_Witness ==
    op = "multiply" /\ Len(matA) = 2 /\ Len(matA[1]) = 3 /\ Len(matB) = 2 /\ out = Thrown

\* C13: bezierToPolynomial throws, returning nothing, for every polygon whose
\* degree is outside {2,3} (degrees 0, 1 and 4 included) and returns the two
\* coefficient vectors for degrees 2 and 3
C13_BezierToPolynomialDegrees ==
    op = "bezierToPolynomial" =>
        IF Len(points) - 1 \in {2, 3}
        THEN out # Thrown /\ Len(out.x) = Len(points) /\ Len(out.y) = Len(points)
        ELSE out = Thrown

C13_Witness == op = "bezierToPolynomial" /\ Len(points) = 5 /\ out = Thrown

\* the control polygon n*(P[i+1] - P[i]) of the derivative curve
Hodograph(p) ==
    [i \in 1..(Len(p) - 1) |->
        Pt(RMul(Num(Len(p) - 1), RSub(p[i + 1].x, p[i].x)),
           RMul(Num(Len(p) - 1), RSub(p[i + 1].y, p[i].y)))]

\* d/du of the Bernstein polynomial B(i,n): n*(B(i-1,n-1) - B(i,n-1))
BernsteinPrime(i, n, v) ==
    RMul(Num(n), RSub(bernstein(i - 1, n - 1, v), bernstein(i, n - 1, v)))

\* the derivative of the curve, term by term
CurvePrime(p, v) ==
    Pt(SumSeq([i \in 1..Len(p) |-> RMul(p[i].x, BernsteinPrime(i - 1, Len(p) - 1, v))]),
       SumSeq([i \in 1..Len(p) |-> RMul(p[i].y, BernsteinPrime(i - 1, Len(p) - 1, v))]))

\* the derivative of the polynomial with coefficients c in descending powers
PowerPrime(c, v) ==
    SumSeq([j \in 1..(Len(c) - 1) |->
               RMul(RMul(Num(Len(c) - j), c[j]), pow(v, Len(c) - j - 1))])

\* C14: bezierDerivative is the derivative of the Bezier curve for any degree:
\* the curve of the polygon n*(P[i+1]-P[i]), n*(P[1]-P[0]) at u=0,
\* n*(P[n]-P[n-1]) at u=1, the derivative of the power-basis polynomial for
\* degrees 2 and 3, and (0,0) for a polygon of one point
C14_BezierDerivativeExact ==
    op = "bezierDerivative" =>
        /\ out = evaluateBezier(Hodograph(points), u)
        /\ out = CurvePrime(points, u)
        /\ Len(points) >= 2 /\ u = Zero => out = Hodograph(points)[1]
        /\ Len(points) >= 2 /\ u = One => out = Hodograph(points)[Len(points) - 1]
        /\ Len(points) \in {3, 4} =>
              out = Pt(PowerPrime(bezierToPolynomial(points).x, u),
                       PowerPrime(bezierToPolynomial(points).y, u))
        /\ Len(points) = 1 => out = Pt(Zero, Zero)

C14_Witness ==
    op = "bezierDerivative" /\ points = <<P(0, 0), P(1, 2), P(4, 0), P(1, 2)>> /\ u = Rat(1, 4)

\* z component of (a - o) x (b - o): zero when o, a and b are on one line
Cross(o, a, b) ==
    RSub(RMul(RSub(a.x, o.x), RSub(b.y, o.y)), RMul(RSub(a.y, o.y), RSub(b.x, o.x)))

\* C19: calculateIntersectionControlPoints returns P1 = (P0 + 2*PStar)/3 and
\* P2 = (2*PStar + P3)/3; the cubic P0,P1,P2,P3 is the quadratic P0,PStar,P3 at
\* every parameter, and PStar is on both end tangent lines of the cubic
C19_IntersectionReconstruction ==
    op = "calculateIntersectionControlPoints" =>
        /\ out[1] = Pt(RAdd(RMul(Rat(1, 3), points[1].x), RMul(Rat(2, 3), points[2].x)),
                       RAdd(RMul(Rat(1, 3), points[1].y), RMul(Rat(2, 3), points[2].y)))
        /\ out[2] = Pt(RAdd(RMul(Rat(2, 3), points[2].x), RMul(Rat(1, 3), points[3].x)),
                       RAdd(RMul(Rat(2, 3), points[2].y), RMul(Rat(1, 3), points[3].y)))
        /\ \A v \in UWide :
              evaluateBezier(<<points[1], out[1], out[2], points[3]>>, v)
                  = evaluateBezier(points, v)
        /\ Cross(points[1], out[1], points[2]) = Zero
        /\ Cross(points[3], out[2], points[2]) = Zero

C19_Witness ==
    op = "calculateIntersectionControlPoints" /\ points = <<P(0, 0), P(1, 2), P(4, 0)>>

\* the control points D_i = degree/(knots[i+degree+1] - knots[i+1]) * (P[i+1] - P[i])
DerivativeControlPoints(cp, deg, kn) ==
    [j \in 1..(Len(cp) - 1) |->
        Pt(RMul(RDiv(Num(deg), RSub(kn[j + deg + 1], kn[j + 1])), RSub(cp[j + 1].x, cp[j].x)),
           RMul(RDiv(Num(deg), RSub(kn[j + deg + 1], kn[j + 1])), RSub(cp[j + 1].y, cp[j].y)))]

\* C15: bsplineDerivative of degree 0 is (0,0) whatever the knot vector holds;
\* of degree >= 1 it is evaluateBSpline of the control points D_i with degree-1
\* over the knots without the first and the last entry
C15_BSplineDerivativeForm ==
    op = "bsplineDerivative" =>
        /\ degree = 0 =>
              /\ out = Pt(Zero, Zero)
              /\ \A kn \in {<<>>, <<NaN>>, <<One, Zero>>} :
                    bsplineDerivative(ctrl, degree, u, kn) = Pt(Zero, Zero)
        /\ degree >= 1 =>
              out = evaluateBSpline(DerivativeControlPoints(ctrl, degree, knots), degree - 1, u,
                                    [j \in 1..(Len(knots) - 2) |-> knots[j + 1]])

C15_Witness ==
    /\ op = "bsplineDerivative"
    /\ degree = 1
    /\ ctrl = <<P(1, 2), P(4, 0), P(1, 2)>>
    /\ knots = <<Zero, Zero, Rat(1, 2), One, One>>
    /\ u = Rat(1, 4)
    /\ out = P(6, -4)

\* C17: over a non-decreasing knot vector, repeated knots included, no basis
\* function is the outcome of a division by zero: every value is a finite number
C17_CoxDeBoorDefined ==
    op = "coxDeBoorRow" /\ NonDecreasing(knots) =>
        \A i \in 1..Len(out) : IsFinite(out[i])

C17_Witness ==
    /\ op = "coxDeBoorRow"
    /\ degree = 1
    /\ knots = <<Zero, Zero, Rat(1, 2), Rat(1, 2), One>>
    /\ u = Rat(1, 2)

\* the i-th of n+1 parameters linearly spaced over [start, end]
SampleAt(i, n, start, end) == RAdd(start, RMul(Rat(i, n), RSub(end, start)))

\* C16: for a sample count n >= 1 each sampler returns n+1 points in parameter
\* order, the i-th being the evaluation at start + (i/n)*(end-start), over
\* [0,1] for Hermite and Bezier and over [knots[degree], knots[length-degree-1]]
\* for B-spline; both ends of the domain are sampled
C16_SamplersCoverDomain ==
    /\ op = "generateHermiteCurvePoints" =>
          /\ Len(out) = samples + 1
          /\ \A i \in 0..samples :
                out[i + 1] = evaluateHermite(form, SampleAt(i, samples, Zero, One))
          /\ out[1] = evaluateHermite(form, Zero)
          /\ out[samples + 1] = evaluateHermite(form, One)
    /\ op = "generateBezierCurvePoints" =>
          /\ Len(out) = samples + 1
          /\ \A i \in 0..samples :
                out[i + 1] = evaluateBezier(points, SampleAt(i, samples, Zero, One))
          /\ out[1] = evaluateBezier(points, Zero)
          /\ out[samples + 1] = evaluateBezier(points, One)
    /\ op = "generateBSplineCurvePoints" =>
          /\ Len(out) = samples + 1
          /\ \A i \in 0..samples :
                out[i + 1] = evaluateBSpline(ctrl, degree,
                                 SampleAt(i, samples, knots[degree + 1],
                                          knots[Len(knots) - degree]),
                                 knots)
          /\ out[1] = evaluateBSpline(ctrl, degree, knots[degree + 1], knots)
          /\ out[samples + 1] = evaluateBSpline(ctrl, degree, knots[Len(knots) - degree], knots)

C16_Witness ==
    /\ op = "generateBSplineCurvePoints"
    /\ samples = 2
    /\ degree = 1
    /\ knots = <<Zero, Rat(1, 2), One, One>>
    /\ ctrl = <<P(1, 2), P(4, 0)>>

\* C20: in BSplineEditor, once the effects have settled after any sequence of
\* move, Add Point, Remove Point and degree events, the displayed curve is
\* generateBSplineCurvePoints of the current control points, degree and knots
C20_CurveFollowsControlPoints ==
    Settled /\ op # "init" =>
        editorCurve = generateBSplineCurvePoints(ctrl, degree, knots, samples)

\* C21: after handleUpdateKnots and after the Uniform preset the knots state
\* satisfies validateKnots(knots, controlPoints.length, degree)
C21_UpdateLeavesValidKnots ==
    op \in {"handleUpdateKnots", "uniformPreset"} =>
        validateKnots(knots, Len(ctrl), degree)

\* C22: whenever the curve effect called the evaluation functions, the knot
\* vector it passed satisfies validateKnots for the control-point count and
\* the degree of that render
C22_EvaluationOnlyWhenValid ==
    op = "useEffect" /\ out # NoCall =>
        validateKnots(out.knots, out.n, out.degree)

\* the effect evaluated a render with one control point fewer than the initial
\* five and degree 2, on the knots the user typed: 0, 0, 0, 0, 1, 1, 1
C22_Witness ==
    /\ op = "useEffect"
    /\ out # NoCall
    /\ out.n = 4
    /\ out.degree = 2
    /\ out.knots = <<Zero, Zero, Zero, Zero, One, One, One>>
    /\ out.knots # generateUniformKnots(4, 2)

\* C23: degree <= controlPoints.length - 1 in every state reachable by Add
\* Point, Remove Point and degree-slider events
C23_DegreeBelowPointCount == degree <= Len(ctrl) - 1

\* C24: whenever the curve effect of BezierEditor takes the intersection
\* branch, the controlPoints array it reads has at least 4 points
C24_IntersectionReadsFourPoints ==
    op = "useEffect" /\ out.intersection => out.length >= 4

\* the polygon whose coordinates are the two vectors
PolygonOf(xs, ys) == [i \in 1..Len(xs) |-> Pt(xs[i], ys[i])]

\* C25: subdivisionMatrix throws for n # 3; for n = 3 every row sums to 1, and
\* the matrix applied to the control coordinates gives the control polygon of
\* the sub-curve over [0,u], whose last point is evaluateBezier(points, u)
C25_SubdivisionMatrixCubic ==
    /\ op = "subdivisionMatrix" /\ bn # 3 => out = Thrown
    /\ op = "subdivisionMatrix" /\ bn = 3 =>
           \A i \in 1..4 : SumSeq(out[i]) = One
    /\ op = "subdivide" =>
           /\ PolygonOf(out.x, out.y)[4] = evaluateBezier(points, u)
           /\ \A t \in USet :
                  evaluateBezier(PolygonOf(out.x, out.y), t) = evaluateBezier(points, RMul(u, t))

\* the polynomial with coefficients c in descending powers: the sum of
\* c[j] * v^(n-j) for j = 0..n
PowerValue(c, v) ==
    SumSeq([j \in 1..Len(c) |-> RMul(c[j], pow(v, Len(c) - j))])

\* C26: for a polygon of 3 or 4 points the coefficient vectors returned by
\* bezierToPolynomial, read in descending powers, give evaluateBezier(points, u)
\* on each axis for every u
C26_PolynomialIsTheCurve ==
    op = "bezierToPolynomial" /\ Len(points) \in {3, 4} =>
        \A v \in UWide :
            Pt(PowerValue(out.x, v), PowerValue(out.y, v)) = evaluateBezier(points, v)

C26_Witness ==
    /\ op = "bezierToPolynomial"
    /\ points = <<P(0, 0), P(1, 2), P(4, 0)>>
    /\ out.x = <<Num(2), Num(2), Zero>>
    /\ out.y = <<Num(-4), Num(4), Zero>>

\* n = k+1 control points over k+1 zeros then k+1 ones, at a parameter of the
\* half-open domain
BezierKnots ==
    /\ nCtrl = degree + 1
    /\ knots = [j \in 1..(2 * degree + 2) |-> IF j <= degree + 1 THEN Zero ELSE One]
    /\ RLe(Zero, u) /\ RLt(u, One)

\* C28: for n = k+1 control points and knots = generateUniformKnots(n, k), at
\* every u with 0 <= u < 1, each basis function is the Bernstein polynomial,
\* evaluateBSpline is evaluateBezier and bsplineDerivative is bezierDerivative
C28_BSplineReducesToBezier ==
    /\ op = "generateUniformKnots" /\ nCtrl = degree + 1 =>
           out = [j \in 1..(2 * degree + 2) |-> IF j <= degree + 1 THEN Zero ELSE One]
    /\ op = "coxDeBoorRow" /\ BezierKnots =>
           \A i \in 1..nCtrl : out[i] = bernstein(i - 1, degree, u)
    /\ op = "evaluateBSpline" /\ BezierKnots => out = evaluateBezier(ctrl, u)
    /\ op = "bsplineDerivative" /\ BezierKnots => out = bezierDerivative(ctrl, u)

C28_Witness ==
    /\ op = "bsplineDerivative"
    /\ BezierKnots
    /\ degree = 3
    /\ ctrl = <<P(1, 2), P(4, 0), P(1, 2), P(4, 0)>>
    /\ u = Rat(1, 4)
    /\ out = bezierDerivative(ctrl, u)
    /\ out # Pt(Zero, Zero)

\* the denominators knots[i+degree+1] - knots[i+1], i = 0..n-2, that scale
\* the derivative control points
DerivativeDenominators(kn, n, deg) ==
    [i \in 1..(n - 1) |-> RSub(At(kn, i + deg), At(kn, i))]

\* C29: over a knot vector that validateKnots accepted, with degree >= 1, no
\* denominator of bsplineDerivative is zero and the vector it returns is finite
C29_DerivativeNeverDividesByZero ==
    op = "bsplineDerivative" /\ degree >= 1 =>
        /\ \A i \in 1..(nCtrl - 1) : DerivativeDenominators(knots, nCtrl, degree)[i] # Zero
        /\ IsFinite(out.x) /\ IsFinite(out.y)

\* C30: deCasteljau terminates for every polygon, the empty one included: each
\* recursive call receives a polygon one point shorter than its caller's, the
\* one-point base case is reached after length-1 recursive calls, and the
\* recursion never runs out of stack
C30_DeCasteljauTerminates ==
    /\ op = "deCasteljau" =>
           /\ \A i \in 1..(Len(stack) - 1) : Len(stack[i + 1]) = Len(stack[i]) - 1
           /\ Len(top) = 1 => Len(stack) - 1 = Len(points) - 1
    /\ op # "RangeError"
    /\ op = "return" => out = evaluateBezier(points, u)

\* C27: after handleUpdateKnots every entry of knots is a real number and the
\* vector is non-decreasing with length n+k+1
C27_InstalledKnotsAreNumbers ==
    op = "handleUpdateKnots" =>
        /\ \A i \in 1..Len(knots) : IsFinite(knots[i])
        /\ NonDecreasing(knots)
        /\ Len(knots) = Len(ctrl) + degree + 1

\* every object of the heap before is in the heap after, at its address and
\* with the value it had
FrameHolds(before, after) ==
    Len(after) >= Len(before) /\ \A a \in 1..Len(before) : after[a] = before[a]

BezierHeapOps ==
    {"deCasteljauOnHeap", "evaluateBezierOnHeap", "getTrimmedControlPointsOnHeap",
     "bezierDerivativeOnHeap", "generateBezierCurvePointsOnHeap",
     "generateHermiteCurvePointsOnHeap"}

BSplineHeapOps ==
    {"evaluateBSplineOnHeap", "bsplineDerivativeOnHeap", "generateBSplineCurvePointsOnHeap"}

\* C18: after deCasteljau, evaluateBezier, getTrimmedControlPoints,
\* bezierDerivative, evaluateBSpline, bsplineDerivative or a sampler returns,
\* the caller's control-point array, every Point in it, the TrimRange, the knot
\* vector and the HermiteForm hold the values they held before the call
C18_InputsUnchanged ==
    /\ op \in BezierHeapOps => FrameHolds(CallerHeap(points, range, knots, form), out.heap)
    /\ op \in BSplineHeapOps => FrameHolds(CallerHeap(ctrl, range, knots, form), out.heap)

C18_Witness ==
    /\ op = "getTrimmedControlPointsOnHeap"
    /\ points = <<P(0, 0), P(1, 2), P(4, 0), P(1, 2)>>
    /\ range = ExampleRange
    /\ Len(out.heap) > Len(CallerHeap(points, range, knots, form))

\* the heap operations return what the operations on values return
HeapAgreesWithValues ==
    /\ op = "deCasteljauOnHeap" => out.heap[out.ret] = deCasteljau(points, u)
    /\ op = "evaluateBezierOnHeap" => out.heap[out.ret] = evaluateBezier(points, u)
    /\ op = "getTrimmedControlPointsOnHeap" =>
          Deref(out.heap, out.ret) = getTrimmedControlPoints(points, range)
    /\ op = "bezierDerivativeOnHeap" => out.heap[out.ret] = bezierDerivative(points, u)
    /\ op = "generateBezierCurvePointsOnHeap" =>
          Deref(out.heap, out.ret) = generateBezierCurvePoints(points, samples)
    /\ op = "generateHermiteCurvePointsOnHeap" =>
          Deref(out.heap, out.ret) = generateHermiteCurvePoints(form, samples)
    /\ op = "evaluateBSplineOnHeap" =>
          out.heap[out.ret] = evaluateBSpline(ctrl, degree, u, knots)
    /\ op = "bsplineDerivativeOnHeap" =>
          out.heap[out.ret] = bsplineDerivative(ctrl, degree, u, knots)
    /\ op = "generateBSplineCurvePointsOnHeap" =>
          Deref(out.heap, out.ret) = generateBSplineCurvePoints(ctrl, degree, knots, samples)

====
